---- MODULE Spec2Model ----
(***************************************************************************)
(* A model of the belief_propagation crate: the factor graph (BPGraph),    *)
(* its nodes (Node), the variable-node behaviour (VariableNode) and the    *)
(* sequential and threaded propagation drivers.                            *)
(*                                                                         *)
(* Node indices are 0-based as in the source; the node vector is a TLA+    *)
(* sequence, so node i is nodes[i + 1].                                    *)
(***************************************************************************)
EXTENDS Integers, Sequences, FiniteSets, TLC

\* ------------------------------------------------------------------------
\* Bounds of the model
\* ------------------------------------------------------------------------

\* Largest number of nodes a graph under construction holds.
MaxNodes == 3

\* Largest arity a behaviour declares through number_inputs().
MaxArity == 2

\* Largest number of nodes of a graph taken through initialize and reset.
MaxLifeNodes == 2

\* ------------------------------------------------------------------------
\* State
\* ------------------------------------------------------------------------

VARIABLES
    nodes,            \* BPGraph.nodes : Vec<Node>
    step,             \* BPGraph.step
    normalize,        \* BPGraph.normalize
    check_validity,   \* BPGraph.check_validity
    last,             \* the last call made on the graph: its arguments, the
                      \* node vector it started from and the value it returned
    pc,               \* where the thread that called propagate* stands
    call,             \* the propagate* call under way
    cursor,           \* create_messages: the index the loop has reached
    outgoing,         \* the messages created in Phase A, to be sent in Phase B
    queue,            \* the Arc<Mutex<Vec>> work queue of a threaded phase
    workers,          \* the scoped worker threads of a threaded phase
    locks,            \* who holds the queue mutex and each node's mutex
    hist              \* what the current step has seen (not program state)

\* the state of a propagate* call under way
driver == <<pc, call, cursor, outgoing, queue, workers, locks, hist>>

vars == <<nodes, step, normalize, check_validity, last, driver>>

\* Option::None and Option::Some(x); Unwrap is Option::unwrap
None == <<>>

Some(x) == <<x>>

Unwrap(o) == o[1]

\* Result values.  BPError carries strings only; the kind names the site
\* that built the error.
Ok == [ok |-> TRUE, kind |-> "Ok"]

Err(kind) == [ok |-> FALSE, kind |-> kind]

\* ------------------------------------------------------------------------
\* Sequence helpers (Vec operations used by the source)
\* ------------------------------------------------------------------------

\* Vec::contains
Contains(s, x) == \E k \in 1..Len(s) : s[k] = x

\* number of occurrences of x in s
Count(s, x) == Cardinality({k \in 1..Len(s) : s[k] = x})

\* ------------------------------------------------------------------------
\* Probability (f64) and Msg (HashMap<T, Probability>)
\*
\* A Probability is an exact rational [n, d] in lowest terms with d > 0: the
\* model computes what the f64 operations compute when they do not round.
\* ------------------------------------------------------------------------

Abs(x) == IF x < 0 THEN -x ELSE x

RECURSIVE GCD(_, _)
GCD(a, b) == IF b = 0 THEN a ELSE GCD(b, a % b)

\* f64::NAN: the one value with denominator 0
NaN == [n |-> 0, d |-> 0]

\* f64::is_nan
IsNaN(x) == x.d = 0

\* the rational n / d in lowest terms; NaN when d = 0, so that every
\* operation on a NaN gives NaN
Rat(n, d) ==
    LET g == GCD(Abs(n), Abs(d))
        sgn == IF d < 0 THEN -1 ELSE 1
    IN  IF d = 0 THEN NaN
        ELSE IF n = 0 THEN [n |-> 0, d |-> 1]
        ELSE [n |-> sgn * (n \div g), d |-> Abs(d) \div g]

\* p0 * p1
RMul(x, y) == Rat(x.n * y.n, x.d * y.d)

\* p0 + p1
RAdd(x, y) == Rat(x.n * y.d + y.n * x.d, x.d * y.d)

\* p0 / p1, p1 # 0
RDiv(x, y) == Rat(x.n * y.d, x.d * y.n)

\* p0 <= p1: false when either is NaN
RLeq(x, y) == ~IsNaN(x) /\ ~IsNaN(y) /\ x.n * y.d <= y.n * x.d

\* f64::abs
RAbs(x) == [n |-> Abs(x.n), d |-> x.d]

\* the values of the domain type T that messages range over
Domain == {1, 2}

\* Msg::new: the empty HashMap
Msg_new == [v \in {} |-> Rat(0, 1)]

\* HashMap::is_empty
Msg_is_empty(m) == DOMAIN m = {}

\* <HashMap as Msg>::normalize: every entry is multiplied by the number of
\* entries; an empty message is an error
Msg_normalize(m) ==
    IF Msg_is_empty(m)
    THEN [msg |-> m, res |-> Err("EmptyMessage")]
    ELSE [msg |-> [v \in DOMAIN m |-> RMul(m[v], Rat(Cardinality(DOMAIN m), 1))],
          res |-> Ok]

\* <HashMap as Msg>::is_valid without the NaN test: a NaN entry passes
Msg_is_valid_NoNaNTest(m) ==
    \A v \in DOMAIN m :
        IsNaN(m[v]) \/ (RLeq(Rat(0, 1), m[v]) /\ RLeq(m[v], Rat(1, 1)))

\* <HashMap as Msg>::is_valid: every entry p has !p.is_nan(), p >= 0 and
\* p <= 1
Msg_is_valid(m) ==
    \A v \in DOMAIN m :
        ~IsNaN(m[v]) /\ RLeq(Rat(0, 1), m[v]) /\ RLeq(m[v], Rat(1, 1))

\* the largest |p| of a non-empty map without NaN
MaxAbs(m) ==
    CHOOSE x \in {RAbs(m[v]) : v \in DOMAIN m} :
        \A v \in DOMAIN m : RLeq(RAbs(m[v]), x)

\* node::norm_hashmap: divide by the largest |p|; an error, and the map as
\* it was, when the map is empty (max is NaN), when its entries are NaN
\* (max_by then returns a NaN) or when the largest |p| is 0.  In a map that
\* holds NaN and numbers max_by returns the entry iterated last or the
\* largest after the last NaN; the messages of the scenarios range over
\* the whole Domain when they hold a NaN, so that no such map arises.
norm_hashmap(m) ==
    IF Msg_is_empty(m) \/ (\E v \in DOMAIN m : IsNaN(m[v])) \/ MaxAbs(m).n = 0
    THEN [map |-> m, res |-> Err("Degenerate")]
    ELSE [map |-> [v \in DOMAIN m |-> RDiv(m[v], MaxAbs(m))], res |-> Ok]

\* the loop of mult_hashmaps: op0[v] *= op1[v] for the v both hold
MultEntries(op0, op1) ==
    [v \in DOMAIN op0 |->
        IF v \in DOMAIN op1 THEN RMul(op0[v], op1[v]) ELSE op0[v]]

\* node::mult_hashmaps: the failure of norm_hashmap is returned
Node_mult_hashmaps(op0, op1) == norm_hashmap(MultEntries(op0, op1))

\* <HashMap as Msg>::mult_msg = msg::mult_hashmaps: the result of
\* norm_hashmap is dropped
Msg_mult_msg(m, other) == norm_hashmap(MultEntries(m, other)).map

\* ------------------------------------------------------------------------
\* Behaviours (Box<dyn NodeFunction>)
\* ------------------------------------------------------------------------

\* VariableNode::new()
VariableNode_new ==
    [type |-> "VariableNode", connections |-> None, prior |-> None,
     needs_all_inputs |-> "AlwaysExceptFirst", has_propagated |-> FALSE,
     send_to_all |-> FALSE]

\* A user-supplied behaviour, as far as the graph can tell one from another:
\* what it answers to is_factor() and number_inputs(), when it is ready
\* ("Full": when the inbox holds one message per connection, as the test's
\* TwoNode; "Always"), and what its node_function returns: a result and, on
\* Ok, an outbox.
UserNode_with(isf, ni, ready, emits) ==
    [type |-> "UserNode", connections |-> None, is_factor |-> isf,
     number_inputs |-> ni, ready |-> ready, emits |-> emits]

\* a user-supplied behaviour that is ready on a full inbox and emits nothing
UserNode_new(isf, ni) ==
    UserNode_with(isf, ni, "Full", [res |-> Ok, out |-> <<>>])

\* a factor that enforces x == y in place of 2 * x == y
mul_Equal(x, y) == IF x = y THEN Rat(1, 1) ELSE Rat(0, 1)

\* tests::mul, the factor of the doubling chain: 1.0 if 2 * x == y
mul(x, y) == IF 2 * x = y THEN Rat(1, 1) ELSE Rat(0, 1)

\* tests::TwoNode::new(mul)
TwoNode_new == [type |-> "TwoNode", connection0 |-> None, connection1 |-> None]

\* the sum of the entries of w at the keys vals, accumulated on acc
RECURSIVE SumOver(_, _, _)
SumOver(w, vals, acc) ==
    IF vals = {} THEN acc
    ELSE LET v == CHOOSE x \in vals : TRUE
         IN  SumOver(w, vals \ {v}, RAdd(acc, w[v]))

\* TwoNode::node_function: msgout0[val0] is the sum over val1 of
\* p1 * f(val0, val1), msgout1[val1] the sum over val0 of p0 * f(val0, val1);
\* a key is inserted only while the nested loops run
TwoNode_node_function(nf, inbox) ==
    IF nf.connection0 = None \/ nf.connection1 = None
    THEN [nf |-> nf, res |-> Err("BehaviorError"), out |-> <<>>]
    ELSE IF Len(inbox) # 2
    THEN [nf |-> nf, res |-> Err("BehaviorError"), out |-> <<>>]
    ELSE IF inbox[1][1] # Unwrap(nf.connection0) \/ inbox[2][1] # Unwrap(nf.connection1)
    THEN [nf |-> nf, res |-> Err("BehaviorError"), out |-> <<>>]
    ELSE LET m0 == inbox[1][2]
             m1 == inbox[2][2]
             msgout0 == [val0 \in (IF DOMAIN m1 = {} THEN {} ELSE DOMAIN m0) |->
                            SumOver([val1 \in DOMAIN m1 |-> RMul(m1[val1], mul(val0, val1))],
                                    DOMAIN m1, Rat(0, 1))]
             msgout1 == [val1 \in (IF DOMAIN m0 = {} THEN {} ELSE DOMAIN m1) |->
                            SumOver([val0 \in DOMAIN m0 |-> RMul(m0[val0], mul(val0, val1))],
                                    DOMAIN m0, Rat(0, 1))]
         IN  [nf |-> nf, res |-> Ok,
              out |-> <<(<<Unwrap(nf.connection0), msgout0>>),
                        (<<Unwrap(nf.connection1), msgout1>>)>>]

\* NodeFunction::is_factor
NF_is_factor(nf) ==
    IF nf.type = "VariableNode" THEN FALSE
    ELSE IF nf.type = "TwoNode" THEN TRUE
    ELSE nf.is_factor

\* NodeFunction::number_inputs
NF_number_inputs(nf) ==
    IF nf.type = "VariableNode" THEN None
    ELSE IF nf.type = "TwoNode" THEN Some(2)
    ELSE nf.number_inputs

\* NodeFunction::initialize (VariableNode::initialize; a user behaviour
\* stores its connections; TwoNode::initialize is reached with two
\* connections only, Node::initialize has compared number_inputs before)
NF_initialize(nf, connections) ==
    IF nf.type = "TwoNode"
    THEN [nf EXCEPT !.connection0 = Some(connections[1]),
                    !.connection1 = Some(connections[2])]
    ELSE [nf EXCEPT !.connections = Some(connections)]

\* NodeFunction::reset.  VariableNode::reset clears the prior only; the
\* test's TwoNode forgets its connections.
NF_reset(nf) ==
    IF nf.type = "VariableNode"
    THEN [nf EXCEPT !.prior = None]
    ELSE IF nf.type = "TwoNode"
    THEN [nf EXCEPT !.connection0 = None, !.connection1 = None]
    ELSE [nf EXCEPT !.connections = None]

\* NodeFunction::get_prior
NF_get_prior(nf) ==
    IF nf.type = "VariableNode" THEN nf.prior ELSE None

\* a panic: the thread unwinds, no value is returned
Panic == [ok |-> FALSE, kind |-> "Panic"]

\* VariableNode::is_ready unwraps self.connections with expect(): it panics
\* on a node that was never initialized
NF_is_ready_panics(nf) ==
    nf.type = "VariableNode" /\ nf.connections = None

\* VariableNode::is_ready with the first test (a full inbox) left out
VariableNode_is_ready_NoFullTest(nf, recv_from) ==
    IF recv_from = <<>> /\ nf.prior = None THEN FALSE
    ELSE CASE nf.needs_all_inputs = "AlwaysExceptFirst" -> ~nf.has_propagated
           [] nf.needs_all_inputs = "NeverExceptFirst" -> nf.has_propagated
           [] nf.needs_all_inputs = "Never" -> TRUE
           [] nf.needs_all_inputs = "Always" -> FALSE

\* VariableNode::is_ready, on an initialized node
VariableNode_is_ready(nf, recv_from) ==
    IF Len(recv_from) = Len(Unwrap(nf.connections)) THEN TRUE
    ELSE IF recv_from = <<>> /\ nf.prior = None THEN FALSE
    ELSE CASE nf.needs_all_inputs = "AlwaysExceptFirst" -> ~nf.has_propagated
           [] nf.needs_all_inputs = "NeverExceptFirst" -> nf.has_propagated
           [] nf.needs_all_inputs = "Never" -> TRUE
           [] nf.needs_all_inputs = "Always" -> FALSE

\* NodeFunction::is_ready (the step is not read by any behaviour)
NF_is_ready(nf, recv_from) ==
    IF nf.type = "VariableNode" THEN VariableNode_is_ready(nf, recv_from)
    ELSE IF nf.type = "TwoNode" THEN Len(recv_from) = 2
    ELSE IF nf.ready = "Always" THEN TRUE
    ELSE nf.connections # None /\ Len(recv_from) = Len(Unwrap(nf.connections))

\* the first loop of the two-pass combine, from inbox entry k on:
\* result.push((msg.0, acc.clone())); acc.mult_msg(&msg.1)
RECURSIVE ForwardPass(_, _, _, _)
ForwardPass(inbox, k, acc, result) ==
    IF k > Len(inbox) THEN [acc |-> acc, result |-> result]
    ELSE ForwardPass(inbox, k + 1, Msg_mult_msg(acc, inbox[k][2]),
                     Append(result, <<inbox[k][1], acc>>))

\* the second loop, over result[..n-1] in reverse, from entry k down:
\* msg.1.mult_msg(&acc); acc.mult_msg(&msg.1)
RECURSIVE BackwardPass(_, _, _)
BackwardPass(result, k, acc) ==
    IF k < 1 THEN [acc |-> acc, result |-> result]
    ELSE LET m == Msg_mult_msg(result[k][2], acc)
         IN  BackwardPass([result EXCEPT ![k] = <<result[k][1], m>>], k - 1,
                          Msg_mult_msg(acc, m))

\* both loops of VariableNode::node_function on an inbox of n >= 2 entries:
\* the result vector and the final acc
TwoPass(nf, inbox) ==
    LET n == Len(inbox)
        fwd == IF nf.prior # None
               THEN ForwardPass(inbox, 1, Unwrap(nf.prior), <<>>)
               ELSE ForwardPass(inbox, 2, inbox[1][2], <<inbox[1]>>)
    IN  BackwardPass(fwd.result, n - 1, inbox[n][2])

\* the senders of an inbox
Senders(inbox) == {inbox[k][1] : k \in 1..Len(inbox)}

\* the prior goes to every connection but the last
Broadcast_SkipLast(connections, prior) ==
    [k \in 1..(Len(connections) - 1) |-> <<connections[k], prior>>]

\* connections.iter().map(|idx| (*idx, prior.clone())).collect()
Broadcast(connections, prior) ==
    [k \in 1..Len(connections) |-> <<connections[k], prior>>]

\* VariableNode::node_function; has_propagated is set before anything else
VariableNode_node_function(nf, inbox) ==
    IF nf.connections = None
    THEN [nf |-> nf, res |-> Panic, out |-> <<>>]
    ELSE LET connections == Unwrap(nf.connections)
             nf1 == [nf EXCEPT !.has_propagated = TRUE]
         IN  IF inbox = <<>>
             THEN IF nf.prior # None
                  THEN [nf |-> nf1, res |-> Ok,
                        out |-> Broadcast(connections, Unwrap(nf.prior))]
                  ELSE [nf |-> nf1, res |-> Err("EmptyInbox"), out |-> <<>>]
             ELSE IF Len(inbox) = 1
             THEN LET idx_in == inbox[1][1]
                      msg_in == IF nf.prior # None
                                THEN Msg_mult_msg(inbox[1][2], Unwrap(nf.prior))
                                ELSE inbox[1][2]
                      back == IF nf.prior # None
                              THEN <<(<<idx_in, Unwrap(nf.prior)>>)>>
                              ELSE <<>>
                      others == SelectSeq(connections, LAMBDA con : idx_in # con)
                  IN  [nf |-> nf1, res |-> Ok,
                       out |-> back \o [k \in 1..Len(others) |-> <<others[k], msg_in>>]]
             ELSE IF Len(inbox) = Len(connections) \/ ~nf.send_to_all
             THEN [nf |-> nf1, res |-> Ok, out |-> TwoPass(nf, inbox).result]
             ELSE LET tp == TwoPass(nf, inbox)
                      missing == SelectSeq(connections,
                                           LAMBDA idx : idx \notin Senders(inbox))
                  IN  IF Len(missing) + Len(tp.result) # Len(connections)
                      THEN [nf |-> nf1, res |-> Panic, out |-> <<>>]
                      ELSE [nf |-> nf1, res |-> Ok,
                            out |-> tp.result \o
                                    [k \in 1..Len(missing) |-> <<missing[k], tp.acc>>]]

\* NodeFunction::node_function
NF_node_function(nf, inbox) ==
    IF nf.type = "VariableNode" THEN VariableNode_node_function(nf, inbox)
    ELSE IF nf.type = "TwoNode" THEN TwoNode_node_function(nf, inbox)
    ELSE [nf |-> nf, res |-> nf.emits.res, out |-> nf.emits.out]

\* The behaviours add_node is called with while a graph is built: the
\* crate's VariableNode, and factor behaviours of free or fixed arity (the
\* test's TwoNode is the factor of arity 2).
Behaviours ==
    {VariableNode_new}
    \cup {UserNode_new(TRUE, ni) : ni \in {None} \cup {Some(k) : k \in 1..MaxArity}}

\* ------------------------------------------------------------------------
\* Node
\* ------------------------------------------------------------------------

\* Node::new
Node_new(nf) ==
    [connections |-> <<>>, inbox |-> <<>>, node_function |-> nf,
     is_initialized |-> FALSE]

\* Node::is_factor
Node_is_factor(n) == NF_is_factor(n.node_function)

\* Node::number_inputs
Node_number_inputs(n) == NF_number_inputs(n.node_function)

\* Node::add_edge with the arity cap left out
Node_add_edge_NoArityCap(n, to) ==
    IF Contains(n.connections, to)
    THEN [node |-> n, res |-> Err("DuplicateEdge")]
    ELSE [node |-> [n EXCEPT !.connections = Append(@, to)], res |-> Ok]

\* Node::add_edge
Node_add_edge(n, to) ==
    IF Contains(n.connections, to)
    THEN [node |-> n, res |-> Err("DuplicateEdge")]
    ELSE IF Node_number_inputs(n) # None /\ Len(n.connections) >= Unwrap(Node_number_inputs(n))
    THEN [node |-> n, res |-> Err("ArityMismatch")]
    ELSE [node |-> [n EXCEPT !.connections = Append(@, to)], res |-> Ok]

\* Node::initialize with the is_initialized test left out
Node_initialize_Again(n) ==
    IF Node_number_inputs(n) # None /\ Len(n.connections) # Unwrap(Node_number_inputs(n))
    THEN [node |-> n, res |-> Err("ArityMismatch")]
    ELSE [node |-> [n EXCEPT !.is_initialized = TRUE,
                             !.node_function = NF_initialize(@, n.connections)],
          res |-> Ok]

\* Node::initialize with the arity check left out
Node_initialize_NoArityCheck(n) ==
    IF n.is_initialized
    THEN [node |-> n, res |-> Err("AlreadyInitialized")]
    ELSE [node |-> [n EXCEPT !.is_initialized = TRUE,
                             !.node_function = NF_initialize(@, n.connections)],
          res |-> Ok]

\* Node::initialize
Node_initialize(n) ==
    IF n.is_initialized
    THEN [node |-> n, res |-> Err("AlreadyInitialized")]
    ELSE IF Node_number_inputs(n) # None /\ Len(n.connections) # Unwrap(Node_number_inputs(n))
    THEN [node |-> n, res |-> Err("ArityMismatch")]
    ELSE [node |-> [n EXCEPT !.is_initialized = TRUE,
                             !.node_function = NF_initialize(@, n.connections)],
          res |-> Ok]

\* Node::reset
Node_reset(n) ==
    [n EXCEPT !.node_function = NF_reset(@), !.inbox = <<>>,
              !.is_initialized = FALSE]

\* Node::read_post: the inbox is replaced by an empty one
Node_read_post(n) == [n EXCEPT !.inbox = <<>>]

\* Node::send_post
Node_send_post(n, from, msg) == [n EXCEPT !.inbox = Append(@, <<from, msg>>)]

\* Node::is_ready panics (the behaviour's is_ready does)
Node_is_ready_panics(n) == NF_is_ready_panics(n.node_function)

\* Node::is_ready
Node_is_ready(n) == NF_is_ready(n.node_function, n.inbox)

\* Node::create_messages with the behaviour left as it was before the call
Node_create_messages_KeepsBehaviour(n) ==
    LET r == NF_node_function(n.node_function, n.inbox)
    IN  [node |-> Node_read_post(n), res |-> r.res, out |-> r.out]

\* Node::create_messages: read_post, then node_function on what was read
Node_create_messages(n) ==
    LET r == NF_node_function(n.node_function, n.inbox)
    IN  [node |-> [Node_read_post(n) EXCEPT !.node_function = r.nf],
         res |-> r.res, out |-> r.out]

\* the loop of Node::get_result over inbox[k..]: mult_hashmaps(&mut res, ..)?
RECURSIVE ResultFold(_, _, _)
ResultFold(inbox, k, acc) ==
    IF k > Len(inbox) THEN [res |-> Ok, value |-> Some(acc)]
    ELSE LET r == Node_mult_hashmaps(acc, inbox[k][2])
         IN  IF ~r.res.ok THEN [res |-> r.res, value |-> None]
             ELSE ResultFold(inbox, k + 1, r.map)

\* Node::get_result.  The result of the norm_hashmap call on the prior is
\* dropped in both places.
Node_get_result(n) ==
    LET prior == NF_get_prior(n.node_function)
    IN  IF n.inbox = <<>>
        THEN IF prior # None
             THEN [res |-> Ok, value |-> Some(norm_hashmap(Unwrap(prior)).map)]
             ELSE [res |-> Ok, value |-> None]
        ELSE IF Node_is_factor(n) THEN [res |-> Ok, value |-> None]
        ELSE IF prior # None
        THEN ResultFold(n.inbox, 1, norm_hashmap(Unwrap(prior)).map)
        ELSE ResultFold(n.inbox, 2, n.inbox[1][2])

\* ------------------------------------------------------------------------
\* BPGraph: construction
\* ------------------------------------------------------------------------

\* BPGraph::len / nodes_count
NodesCount(g) == Len(g)

\* the indices get_node accepts
Indices(g) == 0..(Len(g) - 1)

\* BPGraph::get_node / get_node_mut succeed
InBounds(g, i) == i \in Indices(g)

\* the node get_node returns
NodeAt(g, i) == g[i + 1]

\* the node vector with node i replaced
SetNode(g, i, n) == [g EXCEPT ![i + 1] = n]

\* adj(i)
Adj(g, i) == NodeAt(g, i).connections

\* BPGraph::add_node
BPGraph_add_node(g, nf) == Append(g, Node_new(nf))

\* BPGraph::add_edge without the test that the two nodes differ in kind
BPGraph_add_edge_NoKindCheck(g, node0, node1) ==
    IF ~InBounds(g, node0) \/ ~InBounds(g, node1)
    THEN [nodes |-> g, res |-> Err("IndexOutOfBounds")]
    ELSE LET r0 == Node_add_edge(NodeAt(g, node0), node1)
             g0 == SetNode(g, node0, r0.node)
             r1 == Node_add_edge(NodeAt(g0, node1), node0)
         IN  IF ~r0.res.ok THEN [nodes |-> g, res |-> r0.res]
             ELSE IF ~r1.res.ok THEN [nodes |-> g0, res |-> r1.res]
             ELSE [nodes |-> SetNode(g0, node1, r1.node), res |-> Ok]

\* BPGraph::add_edge.  The first push is kept when the second one fails.
BPGraph_add_edge(g, node0, node1) ==
    IF ~InBounds(g, node0) \/ ~InBounds(g, node1)
    THEN [nodes |-> g, res |-> Err("IndexOutOfBounds")]
    ELSE IF Node_is_factor(NodeAt(g, node0)) = Node_is_factor(NodeAt(g, node1))
    THEN [nodes |-> g, res |-> Err("BipartiteViolation")]
    ELSE LET r0 == Node_add_edge(NodeAt(g, node0), node1)
             g0 == SetNode(g, node0, r0.node)
             r1 == Node_add_edge(NodeAt(g0, node1), node0)
         IN  IF ~r0.res.ok THEN [nodes |-> g, res |-> r0.res]
             ELSE IF ~r1.res.ok THEN [nodes |-> g0, res |-> r1.res]
             ELSE [nodes |-> SetNode(g0, node1, r1.node), res |-> Ok]

\* BPGraph::is_initialized
BPGraph_is_initialized(g) == \A i \in Indices(g) : NodeAt(g, i).is_initialized

\* BPGraph::initialize from node i on: try_for_each stops at the first error
RECURSIVE InitializeFrom(_, _)
InitializeFrom(g, i) ==
    IF i >= Len(g) THEN [nodes |-> g, res |-> Ok]
    ELSE IF NodeAt(g, i).is_initialized THEN InitializeFrom(g, i + 1)
    ELSE LET r == Node_initialize(NodeAt(g, i))
         IN  IF ~r.res.ok THEN [nodes |-> g, res |-> r.res]
             ELSE InitializeFrom(SetNode(g, i, r.node), i + 1)

\* BPGraph::initialize
BPGraph_initialize(g) == InitializeFrom(g, 0)

\* BPGraph::initialize_node(node_index, None)
BPGraph_initialize_node(g, i) ==
    IF ~InBounds(g, i) THEN [nodes |-> g, res |-> Err("IndexOutOfBounds")]
    ELSE LET r == Node_initialize(NodeAt(g, i))
         IN  [nodes |-> SetNode(g, i, r.node), res |-> r.res]

\* BPGraph::reset
BPGraph_reset(g) == [k \in 1..Len(g) |-> Node_reset(g[k])]

\* BPGraph::is_valid_node without the test that the neighbour lists the node
BPGraph_is_valid_node_OneWay(g, node) ==
    /\ InBounds(g, node)
    /\ Adj(g, node) # <<>>
    /\ ~(/\ Node_number_inputs(NodeAt(g, node)) # None
         /\ Unwrap(Node_number_inputs(NodeAt(g, node))) # Len(Adj(g, node)))
    /\ \A k \in 1..Len(Adj(g, node)) : InBounds(g, Adj(g, node)[k])

\* BPGraph::is_valid_node
BPGraph_is_valid_node(g, node) ==
    /\ InBounds(g, node)
    /\ Adj(g, node) # <<>>
    /\ ~(/\ Node_number_inputs(NodeAt(g, node)) # None
         /\ Unwrap(Node_number_inputs(NodeAt(g, node))) # Len(Adj(g, node)))
    /\ \A k \in 1..Len(Adj(g, node)) :
          /\ InBounds(g, Adj(g, node)[k])
          /\ Contains(Adj(g, Adj(g, node)[k]), node)

\* BPGraph::is_valid
BPGraph_is_valid(g) == \A i \in Indices(g) : BPGraph_is_valid_node(g, i)

\* ------------------------------------------------------------------------
\* BPGraph: one propagation step, sequential driver
\* ------------------------------------------------------------------------

\* the body of the loop of BPGraph::create_messages for node i: res is the
\* vector collected so far
CreateAt(g, i, res) ==
    IF Node_is_ready_panics(NodeAt(g, i))
    THEN [nodes |-> g, res |-> Panic, out |-> res]
    ELSE IF ~Node_is_ready(NodeAt(g, i))
    THEN [nodes |-> g, res |-> Ok, out |-> res]
    ELSE LET r == Node_create_messages(NodeAt(g, i))
         IN  [nodes |-> SetNode(g, i, r.node), res |-> r.res,
              out |-> IF r.res.ok THEN Append(res, <<i, r.out>>) ELSE res]

\* BPGraph::create_messages from node i on
RECURSIVE CreateFrom(_, _, _)
CreateFrom(g, i, res) ==
    IF i >= Len(g) THEN [nodes |-> g, res |-> Ok, out |-> res]
    ELSE LET r == CreateAt(g, i, res)
         IN  IF ~r.res.ok THEN r ELSE CreateFrom(r.nodes, i + 1, r.out)

\* BPGraph::create_messages
BPGraph_create_messages(g) == CreateFrom(g, 0, <<>>)

\* msg.normalize() when the graph normalizes
NormalizeIf(norm, msg) ==
    IF norm THEN Msg_normalize(msg) ELSE [msg |-> msg, res |-> Ok]

\* the body of the inner loop of BPGraph::send with the edge test left out
SendOne_NoEdgeTest(g, from, to, msg, norm, chk) ==
    IF ~InBounds(g, to) THEN [nodes |-> g, res |-> Err("IndexOutOfBounds")]
    ELSE LET nr == NormalizeIf(norm, msg)
         IN  IF ~nr.res.ok THEN [nodes |-> g, res |-> nr.res]
             ELSE IF chk /\ ~Msg_is_valid(nr.msg)
             THEN [nodes |-> g, res |-> Err("InvalidMessage")]
             ELSE [nodes |-> SetNode(g, to, Node_send_post(NodeAt(g, to), from, nr.msg)),
                   res |-> Ok]

\* the body of the inner loop of BPGraph::send: look the destination up,
\* test the edge, normalize, test the validity of the normalized message,
\* append
SendOne(g, from, to, msg, norm, chk) ==
    IF ~InBounds(g, to) THEN [nodes |-> g, res |-> Err("IndexOutOfBounds")]
    ELSE IF ~Contains(Adj(g, to), from)
    THEN [nodes |-> g, res |-> Err("MissingEdge")]
    ELSE LET nr == NormalizeIf(norm, msg)
         IN  IF ~nr.res.ok THEN [nodes |-> g, res |-> nr.res]
             ELSE IF chk /\ ~Msg_is_valid(nr.msg)
             THEN [nodes |-> g, res |-> Err("InvalidMessage")]
             ELSE [nodes |-> SetNode(g, to, Node_send_post(NodeAt(g, to), from, nr.msg)),
                   res |-> Ok]

\* the messages of msgs = [(from, [(to, msg)])] in the order the nested
\* loops of send visit them, as triples <<from, to, msg>>
RECURSIVE Flatten(_)
Flatten(msgs) ==
    IF msgs = <<>> THEN <<>>
    ELSE [k \in 1..Len(msgs[1][2]) |->
              <<msgs[1][1], msgs[1][2][k][1], msgs[1][2][k][2]>>]
         \o Flatten(Tail(msgs))

\* BPGraph::send over the flattened messages from the k-th on
RECURSIVE SendFrom(_, _, _, _, _)
SendFrom(g, flat, k, norm, chk) ==
    IF k > Len(flat) THEN [nodes |-> g, res |-> Ok]
    ELSE LET r == SendOne(g, flat[k][1], flat[k][2], flat[k][3], norm, chk)
         IN  IF ~r.res.ok THEN r ELSE SendFrom(r.nodes, flat, k + 1, norm, chk)

\* BPGraph::send
BPGraph_send(g, msgs, norm, chk) == SendFrom(g, Flatten(msgs), 1, norm, chk)

\* BPGraph::propagate_step on graph g with step counter st
BPGraph_propagate_step(g, st, norm, chk) ==
    IF chk /\ ~BPGraph_is_valid(g)
    THEN [nodes |-> g, step |-> st, res |-> Err("InvalidGraph")]
    ELSE LET c == BPGraph_create_messages(g)
             d == BPGraph_send(c.nodes, c.out, norm, chk)
         IN  IF ~c.res.ok THEN [nodes |-> c.nodes, step |-> st, res |-> c.res]
             ELSE IF ~d.res.ok THEN [nodes |-> d.nodes, step |-> st, res |-> d.res]
             ELSE [nodes |-> d.nodes, step |-> st + 1, res |-> Ok]

\* the loop of BPGraph::propagate with `left` steps to go
RECURSIVE PropagateLoop(_, _, _, _, _)
PropagateLoop(g, st, norm, chk, left) ==
    IF left = 0 THEN [nodes |-> g, step |-> st, res |-> Ok]
    ELSE LET r == BPGraph_propagate_step(g, st, norm, chk)
         IN  IF ~r.res.ok THEN r
             ELSE PropagateLoop(r.nodes, r.step, norm, chk, left - 1)

\* BPGraph::propagate
BPGraph_propagate(g, st, norm, chk, steps) ==
    IF ~BPGraph_is_initialized(g)
    THEN [nodes |-> g, step |-> st, res |-> Err("NotInitialized")]
    ELSE PropagateLoop(g, st, norm, chk, steps)

\* ------------------------------------------------------------------------
\* Specification of the construction interface
\* ------------------------------------------------------------------------

\* no propagate* call has been made yet.  steps and T are the arguments,
\* left the iterations of the loop still to run, done the steps that
\* completed, tried the steps that were begun, start and start_step the
\* graph and the counter when the call was made, n the number of calls so
\* far.
NoCall == [op |-> "none", steps |-> 0, T |-> 0, left |-> 0, done |-> 0,
           tried |-> 0, start |-> <<>>, start_step |-> 0, n |-> 0]

\* what a step has seen: the node vector and the counter it began with, the inbox each
\* create_messages read, the messages Phase A produced (flattened), the
\* number of send_post calls of Phase B, how the step ended and what it
\* returned; built is the graph as it was when every node was initialized
\* for the first time (kept where the life cycle is followed)
NoHist == [snap |-> <<>>, step0 |-> 0, consumed |-> {}, produced |-> <<>>,
           deposited |-> 0, outcome |-> "none", res |-> Ok, built |-> <<>>]

\* the state of the driver between calls
DriverIdle ==
    /\ pc = "idle"
    /\ call = NoCall
    /\ cursor = 0
    /\ outgoing = <<>>
    /\ queue = <<>>
    /\ workers = <<>>
    /\ locks = <<>>
    /\ hist = NoHist

\* a call record
Call(op, i, j, pre, res) == [op |-> op, i |-> i, j |-> j, pre |-> pre, res |-> res]

\* BPGraph::new
Init ==
    /\ nodes = <<>>
    /\ step = 0
    /\ normalize = TRUE
    /\ check_validity = FALSE
    /\ last = Call("new", 0, 0, <<>>, Ok)
    /\ DriverIdle

AddNode ==
    /\ Len(nodes) < MaxNodes
    /\ \E nf \in Behaviours :
          /\ nodes' = BPGraph_add_node(nodes, nf)
          /\ last' = Call("add_node", Len(nodes), 0, nodes, Ok)
    /\ UNCHANGED <<step, normalize, check_validity, driver>>

\* add_edge is called with every pair of indices, one past the end included
AddEdge ==
    /\ \E i \in 0..Len(nodes), j \in 0..Len(nodes) :
          LET r == BPGraph_add_edge(nodes, i, j)
          IN  /\ nodes' = r.nodes
              /\ last' = Call("add_edge", i, j, nodes, r.res)
    /\ UNCHANGED <<step, normalize, check_validity, driver>>

Initialize ==
    /\ LET r == BPGraph_initialize(nodes)
       IN  /\ nodes' = r.nodes
           /\ last' = Call("initialize", 0, 0, nodes, r.res)
    /\ UNCHANGED <<step, normalize, check_validity, driver>>

InitializeNode ==
    /\ \E i \in 0..Len(nodes) :
          LET r == BPGraph_initialize_node(nodes, i)
          IN  /\ nodes' = r.nodes
              /\ last' = Call("initialize_node", i, 0, nodes, r.res)
    /\ UNCHANGED <<step, normalize, check_validity, driver>>

Reset ==
    /\ nodes' = BPGraph_reset(nodes)
    /\ last' = Call("reset", 0, 0, nodes, Ok)
    /\ UNCHANGED <<step, normalize, check_validity, driver>>

\* Construction: any sequence of add_node and add_edge calls.
Next ==
    \/ AddNode
    \/ AddEdge

Spec == Init /\ [][Next]_vars

\* ------------------------------------------------------------------------
\* Specification of the life cycle: build, initialize, reset
\* ------------------------------------------------------------------------

LifeAddNode ==
    /\ Len(nodes) < MaxLifeNodes
    /\ \E nf \in Behaviours :
          /\ nodes' = BPGraph_add_node(nodes, nf)
          /\ last' = Call("add_node", Len(nodes), 0, nodes, Ok)
    /\ UNCHANGED <<step, normalize, check_validity, driver>>

NextLife ==
    \/ LifeAddNode
    \/ AddEdge
    \/ Initialize
    \/ InitializeNode
    \/ Reset

SpecLife == Init /\ [][NextLife]_vars

\* ------------------------------------------------------------------------
\* Propagation: the graphs it is run on
\* ------------------------------------------------------------------------

\* Largest number of propagate* calls made on one graph.
MaxCalls == 1

\* Largest `steps` argument of propagate and propagate_threaded.
MaxSteps == 2

\* Largest thread_count argument.
MaxThreads == 2

\* min_batch_size of send_threaded and create_messages_threaded
MinBatchSize == 5

\* the message that gives every value of the domain the probability p
Uniform(p) == [v \in Domain |-> p]

\* a message that is not valid: its one entry is 2
Over == [v \in {1} |-> Rat(2, 1)]

\* VariableNode::set_prior: an error when a prior is already set
VariableNode_set_prior(nf, prior) ==
    IF nf.prior # None THEN [nf |-> nf, res |-> Err("PriorAlreadySet")]
    ELSE [nf |-> [nf EXCEPT !.prior = Some(prior)], res |-> Ok]

\* VariableNode::set_input_need
VariableNode_set_input_need(nf, input_need) ==
    [nf EXCEPT !.needs_all_inputs = input_need]

\* VariableNode::set_send_to_all
VariableNode_set_send_to_all(nf, send_to_all) ==
    [nf EXCEPT !.send_to_all = send_to_all]

\* VariableNode::new() followed by set_prior when a prior is given
VariableNode_prior(prior) ==
    IF prior = None THEN VariableNode_new
    ELSE VariableNode_set_prior(VariableNode_new, Unwrap(prior)).nf

\* add_node for each behaviour of nfs, in order
RECURSIVE AddNodes(_, _)
AddNodes(g, nfs) ==
    IF nfs = <<>> THEN g
    ELSE AddNodes(BPGraph_add_node(g, Head(nfs)), Tail(nfs))

\* add_edge for each pair of edges, in order
RECURSIVE AddEdges(_, _)
AddEdges(g, edges) ==
    IF edges = <<>> THEN g
    ELSE AddEdges(BPGraph_add_edge(g, edges[1][1], edges[1][2]).nodes, Tail(edges))

\* the graph after the add_node calls, the add_edge calls and initialize()
BuildGraph(nfs, edges) ==
    BPGraph_initialize(AddEdges(AddNodes(<<>>, nfs), edges)).nodes

\* what the node_function of the factor of a chain returns: well-addressed
\* valid messages; a message that is valid until it is normalized; a message
\* to the factor itself (no edge), valid or not, alone or after a good one;
\* a message to an index past the end; an empty message; invalid messages
\* (an entry above 1, NaN entries, negative entries); an error
FactorOutputs ==
    {[res |-> Ok, out |-> o] : o \in
        {<<(<<0, Uniform(Rat(1, 2))>>), (<<1, Uniform(Rat(1, 2))>>)>>,
         <<(<<0, Uniform(Rat(3, 5))>>)>>,
         <<(<<2, Uniform(Rat(1, 2))>>)>>,
         <<(<<2, Over>>)>>,
         <<(<<0, Uniform(Rat(1, 2))>>), (<<2, Uniform(Rat(1, 2))>>)>>,
         <<(<<0, Over>>), (<<2, Uniform(Rat(1, 2))>>)>>,
         <<(<<3, Uniform(Rat(1, 2))>>)>>,
         <<(<<0, Msg_new>>)>>,
         <<(<<0, Over>>)>>,
         <<(<<0, Uniform(NaN)>>)>>,
         <<(<<0, Uniform(Rat(-1, 2))>>)>>}}
    \cup {[res |-> Err("BehaviorError"), out |-> <<>>]}

\* variables 0 and 1 joined by factor 2, as each pair of the test's chain
Chain(prior0, prior1, ready, emits) ==
    BuildGraph(<<VariableNode_prior(prior0), VariableNode_prior(prior1),
                 UserNode_with(TRUE, Some(2), ready, emits)>>,
               <<(<<0, 2>>), (<<2, 1>>)>>)

\* the number of leaves of the star: more than one batch of a worker
StarLeaves == MinBatchSize + 1

\* factor 0 joined to variables 1 .. StarLeaves, each with a prior
Star ==
    BuildGraph(<<UserNode_with(TRUE, None, "Full",
                     [res |-> Ok, out |-> <<(<<1, Uniform(Rat(1, 2))>>),
                                            (<<2, Uniform(Rat(1, 2))>>)>>])>>
               \o [k \in 1..StarLeaves |-> VariableNode_prior(Some(Uniform(Rat(1, 2))))],
               [k \in 1..StarLeaves |-> <<0, k>>])

\* a factor of declared arity 1 and two variables: the second add_edge
\* fails at the factor after the variable has recorded it
Lopsided ==
    BuildGraph(<<UserNode_new(TRUE, Some(1)),
                 VariableNode_prior(Some(Uniform(Rat(1, 2)))),
                 VariableNode_prior(Some(Uniform(Rat(1, 2))))>>,
               <<(<<1, 0>>), (<<2, 0>>)>>)

\* a chain on which initialize() was not called
Uninitialized ==
    AddEdges(AddNodes(<<>>, <<VariableNode_prior(Some(Uniform(Rat(1, 2)))),
                              VariableNode_prior(None),
                              UserNode_new(TRUE, Some(2))>>),
             <<(<<0, 2>>), (<<2, 1>>)>>)

\* a variable with a prior joined to a factor, and a variable without prior
\* that has no neighbour
Isolated ==
    BuildGraph(<<VariableNode_prior(Some(Uniform(Rat(1, 2)))),
                 UserNode_new(TRUE, Some(1)),
                 VariableNode_prior(None)>>,
               <<(<<0, 1>>)>>)

\* the graphs propagation is run on
Scenarios ==
    {Chain(p0, p1, "Full", [res |-> Ok, out |-> <<(<<0, Uniform(Rat(1, 2))>>),
                                                  (<<1, Uniform(Rat(1, 2))>>)>>]) :
        p0 \in {Some(Uniform(Rat(1, 2))), Some(Uniform(Rat(3, 5)))},
        p1 \in {None, Some(Uniform(Rat(1, 2)))}}
    \cup {Chain(Some(Uniform(Rat(1, 2))), Some(Uniform(Rat(1, 2))), "Always", emits) :
             emits \in FactorOutputs}
    \cup {Chain(Some(Uniform(Rat(1, 2))), Some(Uniform(Rat(1, 2))), "Full", emits) :
             emits \in {[res |-> Ok, out |-> <<(<<2, Uniform(Rat(1, 2))>>)>>],
                        [res |-> Err("BehaviorError"), out |-> <<>>]}}
    \cup {Star, Lopsided, Uninitialized, Isolated}

\* ------------------------------------------------------------------------
\* Propagation: the sequential driver, one loop iteration at a time
\* ------------------------------------------------------------------------

\* the call under way is one of the threaded entry points
Threaded == call.op \in {"propagate_step_threaded", "propagate_threaded"}

\* the record of a call that is being made
NewCall(op, steps, T) ==
    [op |-> op, steps |-> steps, T |-> T, left |-> steps, done |-> 0,
     tried |-> 0, start |-> nodes, start_step |-> step, n |-> call.n + 1]

\* a graph that was built and has the flags set by set_normalize and
\* set_check_validity; no step has run
InitProp ==
    /\ nodes \in Scenarios
    /\ step = 0
    /\ normalize \in BOOLEAN
    /\ check_validity \in BOOLEAN
    /\ last = Call("new", 0, 0, <<>>, Ok)
    /\ DriverIdle

\* the locals of the drivers are dropped
DropLocals ==
    /\ cursor' = 0
    /\ outgoing' = <<>>
    /\ queue' = <<>>
    /\ workers' = <<>>
    /\ locks' = <<>>

\* the call under way returns res to its caller
Returned(res) ==
    /\ pc' = "idle"
    /\ last' = Call(call.op, call.steps, call.T, call.start, res)
    /\ DropLocals

\* the call under way panics: the process unwinds
Crashed ==
    /\ pc' = "crashed"
    /\ last' = Call(call.op, call.steps, call.T, call.start, Panic)
    /\ DropLocals

\* propagate_step()
CallPropagateStep ==
    /\ pc = "idle"
    /\ call.n < MaxCalls
    /\ call' = NewCall("propagate_step", 1, 0)
    /\ pc' = "step"
    /\ UNCHANGED <<nodes, step, normalize, check_validity, last, cursor,
                   outgoing, queue, workers, locks, hist>>

\* propagate_step_threaded(thread_count)
CallPropagateStepThreaded ==
    /\ pc = "idle"
    /\ call.n < MaxCalls
    /\ \E thread_count \in 1..MaxThreads :
          call' = NewCall("propagate_step_threaded", 1, thread_count)
    /\ pc' = "step"
    /\ UNCHANGED <<nodes, step, normalize, check_validity, last, cursor,
                   outgoing, queue, workers, locks, hist>>

\* the head of propagate and propagate_threaded: the is_initialized test,
\* and a loop of no iteration
EnterLoop(op, steps, T) ==
    /\ call' = NewCall(op, steps, T)
    /\ IF ~BPGraph_is_initialized(nodes)
       THEN /\ pc' = "idle"
            /\ last' = Call(op, steps, T, nodes, Err("NotInitialized"))
       ELSE IF steps = 0
       THEN /\ pc' = "idle"
            /\ last' = Call(op, steps, T, nodes, Ok)
       ELSE /\ pc' = "step"
            /\ UNCHANGED last

\* propagate(steps)
CallPropagate ==
    /\ pc = "idle"
    /\ call.n < MaxCalls
    /\ \E steps \in 0..MaxSteps : EnterLoop("propagate", steps, 0)
    /\ UNCHANGED <<nodes, step, normalize, check_validity, cursor,
                   outgoing, queue, workers, locks, hist>>

\* propagate_threaded(steps, thread_count)
CallPropagateThreaded ==
    /\ pc = "idle"
    /\ call.n < MaxCalls
    /\ \E steps \in 0..MaxSteps, thread_count \in 1..MaxThreads :
          EnterLoop("propagate_threaded", steps, thread_count)
    /\ UNCHANGED <<nodes, step, normalize, check_validity, cursor,
                   outgoing, queue, workers, locks, hist>>

\* the history of a step that begins
NewHist(outcome) ==
    [NoHist EXCEPT !.snap = nodes, !.step0 = step, !.outcome = outcome,
                   !.built = hist.built]

\* a worker thread that was spawned
Worker0 == [pc |-> "take", chunk |-> <<>>, thread_msgs |-> <<>>,
            cur |-> <<>>, res |-> Ok]

\* the handles of the thread_count threads a scope spawns
Spawn(thread_count) == [w \in 1..thread_count |-> Worker0]

\* the indices create_messages_threaded keeps: those of the ready nodes
ReadyNodes(g) ==
    SelectSeq([k \in 1..Len(g) |-> k - 1], LAMBDA i : Node_is_ready(NodeAt(g, i)))

\* the head of propagate_step and propagate_step_threaded: the validity of
\* the graph, then the start of create_messages; the threaded driver
\* filters the ready nodes here, and expect() panics where is_ready fails
StepBegin ==
    /\ pc = "step"
    /\ call' = [call EXCEPT !.tried = @ + 1]
    /\ IF check_validity /\ ~BPGraph_is_valid(nodes)
       THEN /\ Returned(Err("InvalidGraph"))
            /\ hist' = [NewHist("failed") EXCEPT !.res = Err("InvalidGraph")]
       ELSE IF ~Threaded
       THEN /\ pc' = "seqA"
            /\ hist' = NewHist("running")
            /\ UNCHANGED <<last, cursor, outgoing, queue, workers, locks>>
       ELSE IF \E i \in Indices(nodes) : Node_is_ready_panics(NodeAt(nodes, i))
       THEN /\ Crashed
            /\ hist' = [NewHist("crashed") EXCEPT !.res = Panic]
       ELSE /\ pc' = "thrA"
            /\ queue' = ReadyNodes(nodes)
            /\ workers' = Spawn(call.T)
            /\ hist' = NewHist("running")
            /\ UNCHANGED <<last, cursor, outgoing, locks>>
    /\ UNCHANGED <<nodes, step, normalize, check_validity>>

\* the end of a step: the counter is incremented, and the loop of
\* propagate / propagate_threaded goes on or the call returns Ok
StepEnd ==
    /\ step' = step + 1
    /\ call' = [call EXCEPT !.left = @ - 1, !.done = @ + 1]
    /\ hist' = [hist EXCEPT !.outcome = "ok"]
    /\ IF call.left > 1
       THEN /\ pc' = "step"
            /\ DropLocals
            /\ UNCHANGED last
       ELSE Returned(Ok)

\* one iteration of the loop of BPGraph::create_messages
SeqCreate ==
    /\ pc = "seqA"
    /\ cursor < Len(nodes)
    /\ LET r == CreateAt(nodes, cursor, outgoing)
           read == IF \/ Node_is_ready_panics(NodeAt(nodes, cursor))
                      \/ ~Node_is_ready(NodeAt(nodes, cursor))
                   THEN {}
                   ELSE {<<cursor, NodeAt(nodes, cursor).inbox>>}
       IN  /\ nodes' = r.nodes
           /\ IF r.res = Panic
              THEN /\ Crashed
                   /\ hist' = [hist EXCEPT !.consumed = @ \cup read,
                                           !.outcome = "crashed", !.res = Panic]
              ELSE IF ~r.res.ok
              THEN /\ Returned(r.res)
                   /\ hist' = [hist EXCEPT !.consumed = @ \cup read,
                                           !.outcome = "failed", !.res = r.res]
              ELSE /\ cursor' = cursor + 1
                   /\ outgoing' = r.out
                   /\ hist' = [hist EXCEPT !.consumed = @ \cup read]
                   /\ UNCHANGED <<pc, last, queue, workers, locks>>
    /\ UNCHANGED <<step, normalize, check_validity, call>>

\* create_messages returns Ok(res), with the counter incremented before send
SeqCreateDone_CountsEarly ==
    /\ pc = "seqA"
    /\ cursor = Len(nodes)
    /\ pc' = "seqB"
    /\ cursor' = 0
    /\ step' = step + 1
    /\ hist' = [hist EXCEPT !.produced = Flatten(outgoing)]
    /\ UNCHANGED <<nodes, normalize, check_validity, last, call,
                   outgoing, queue, workers, locks>>

\* create_messages returns Ok(res); send starts on its argument
SeqCreateDone ==
    /\ pc = "seqA"
    /\ cursor = Len(nodes)
    /\ pc' = "seqB"
    /\ cursor' = 0
    /\ hist' = [hist EXCEPT !.produced = Flatten(outgoing)]
    /\ UNCHANGED <<nodes, step, normalize, check_validity, last, call,
                   outgoing, queue, workers, locks>>

\* one iteration of the inner loop of BPGraph::send
SeqSend ==
    /\ pc = "seqB"
    /\ cursor < Len(Flatten(outgoing))
    /\ LET m == Flatten(outgoing)[cursor + 1]
           r == SendOne(nodes, m[1], m[2], m[3], normalize, check_validity)
       IN  /\ nodes' = r.nodes
           /\ IF r.res.ok
              THEN /\ cursor' = cursor + 1
                   /\ hist' = [hist EXCEPT !.deposited = @ + 1]
                   /\ UNCHANGED <<pc, last, outgoing, queue, workers, locks>>
              ELSE /\ Returned(r.res)
                   /\ hist' = [hist EXCEPT !.outcome = "failed", !.res = r.res]
    /\ UNCHANGED <<step, normalize, check_validity, call>>

\* send returns Ok(()): self.step += 1
SeqSendDone ==
    /\ pc = "seqB"
    /\ cursor = Len(Flatten(outgoing))
    /\ StepEnd
    /\ UNCHANGED <<nodes, normalize, check_validity>>

\* ------------------------------------------------------------------------
\* Propagation: the threaded driver, one worker step at a time
\* ------------------------------------------------------------------------

\* batch_size = max(min_batch_size, len / (2 * thread_count))
BatchSize(len, thread_count) ==
    IF len \div (2 * thread_count) > MinBatchSize
    THEN len \div (2 * thread_count)
    ELSE MinBatchSize

\* the length of drain(0..min(batch_size, len))
TakeCount(len, thread_count) ==
    IF BatchSize(len, thread_count) < len THEN BatchSize(len, thread_count) ELSE len

\* the scope ends as soon as one worker has finished
JoinReady_Early(ws) == \E w \in DOMAIN ws : ws[w].pc = "done"

\* the loop over the handles of a scope has joined every worker
JoinReady(ws) == \A w \in DOMAIN ws : ws[w].pc = "done"

\* what the scope gives: a panic of any worker unwinds through expect();
\* otherwise the first error in the order of the handles; otherwise Ok
JoinResult(ws) ==
    IF \E w \in DOMAIN ws : ws[w].res = Panic THEN Panic
    ELSE IF \E w \in DOMAIN ws : ~ws[w].res.ok
    THEN ws[CHOOSE w \in DOMAIN ws :
                /\ ~ws[w].res.ok
                /\ \A v \in DOMAIN ws : v < w => ws[v].res.ok].res
    ELSE Ok

\* result.extend(thread_msgs) in the order of the handles, from worker w on
RECURSIVE CollectFrom(_, _)
CollectFrom(ws, w) ==
    IF w > Len(ws) THEN <<>>
    ELSE ws[w].thread_msgs \o CollectFrom(ws, w + 1)

\* a worker of create_messages_threaded that copies its chunk and leaves it
\* in the queue
A_Take_NoDrain(w) ==
    /\ pc = "thrA"
    /\ workers[w].pc = "take"
    /\ IF queue = <<>>
       THEN workers' = [workers EXCEPT ![w].pc = "done"]
       ELSE workers' = [workers EXCEPT
                           ![w].pc = "create",
                           ![w].chunk = SubSeq(queue, 1, TakeCount(Len(queue), call.T))]
    /\ UNCHANGED <<nodes, step, normalize, check_validity, last, pc, call,
                   cursor, outgoing, queue, locks, hist>>

\* a worker of create_messages_threaded locks the queue of ready nodes and
\* drains its next chunk, or leaves its loop when the queue is empty
A_Take(w) ==
    /\ pc = "thrA"
    /\ workers[w].pc = "take"
    /\ IF queue = <<>>
       THEN /\ workers' = [workers EXCEPT ![w].pc = "done"]
            /\ UNCHANGED queue
       ELSE LET c == TakeCount(Len(queue), call.T)
            IN  /\ workers' = [workers EXCEPT ![w].pc = "create",
                                              ![w].chunk = SubSeq(queue, 1, c)]
                /\ queue' = SubSeq(queue, c + 1, Len(queue))
    /\ UNCHANGED <<nodes, step, normalize, check_validity, last, pc, call,
                   cursor, outgoing, locks, hist>>

\* a worker calls create_messages on the next node of its chunk; an error
\* ends the thread and drops what it had collected
A_Create(w) ==
    /\ pc = "thrA"
    /\ workers[w].pc = "create"
    /\ LET idx == Head(workers[w].chunk)
           r == Node_create_messages(NodeAt(nodes, idx))
       IN  /\ nodes' = SetNode(nodes, idx, r.node)
           /\ hist' = [hist EXCEPT
                          !.consumed = @ \cup {<<idx, NodeAt(nodes, idx).inbox>>}]
           /\ workers' =
                 IF r.res.ok
                 THEN [workers EXCEPT
                          ![w].thread_msgs = Append(@, <<idx, r.out>>),
                          ![w].chunk = Tail(@),
                          ![w].pc = IF Tail(workers[w].chunk) = <<>>
                                    THEN "take" ELSE "create"]
                 ELSE [workers EXCEPT ![w].pc = "done", ![w].res = r.res,
                                      ![w].chunk = <<>>, ![w].thread_msgs = <<>>]
    /\ UNCHANGED <<step, normalize, check_validity, last, pc, call, cursor,
                   outgoing, queue, locks>>

\* the scope of create_messages_threaded ends; send_threaded wraps every
\* node in a mutex and spawns its own workers on the collected messages
A_Join ==
    /\ pc = "thrA"
    /\ JoinReady(workers)
    /\ IF JoinResult(workers) = Panic
       THEN /\ Crashed
            /\ hist' = [hist EXCEPT !.outcome = "crashed", !.res = Panic]
       ELSE IF ~JoinResult(workers).ok
       THEN /\ Returned(JoinResult(workers))
            /\ hist' = [hist EXCEPT !.outcome = "failed",
                                    !.res = JoinResult(workers)]
       ELSE /\ pc' = "thrB"
            /\ outgoing' = CollectFrom(workers, 1)
            /\ queue' = CollectFrom(workers, 1)
            /\ workers' = Spawn(call.T)
            /\ locks' = [k \in 1..Len(nodes) |-> 0]
            /\ hist' = [hist EXCEPT !.produced = Flatten(CollectFrom(workers, 1))]
            /\ UNCHANGED <<last, cursor>>
    /\ UNCHANGED <<nodes, step, normalize, check_validity, call>>

\* a worker of send_threaded locks the queue of messages and drains its
\* next chunk, or leaves its loop when the queue is empty
B_Take(w) ==
    /\ pc = "thrB"
    /\ workers[w].pc = "take"
    /\ IF queue = <<>>
       THEN /\ workers' = [workers EXCEPT ![w].pc = "done"]
            /\ UNCHANGED queue
       ELSE LET c == TakeCount(Len(queue), call.T)
                chunck == Flatten(SubSeq(queue, 1, c))
            IN  /\ workers' = [workers EXCEPT
                                  ![w].pc = IF chunck = <<>> THEN "take" ELSE "check",
                                  ![w].chunk = chunck]
                /\ queue' = SubSeq(queue, c + 1, Len(queue))
    /\ UNCHANGED <<nodes, step, normalize, check_validity, last, pc, call,
                   cursor, outgoing, locks, hist>>

\* what send_threaded does with a message before it locks the destination:
\* the validity of the message as produced, normalization, and the index
\* nodes[to], which panics past the end
ThreadedCheck(g, to, msg, norm, chk) ==
    IF chk /\ ~Msg_is_valid(msg) THEN [msg |-> msg, res |-> Err("InvalidMessage")]
    ELSE IF ~NormalizeIf(norm, msg).res.ok
    THEN [msg |-> msg, res |-> NormalizeIf(norm, msg).res]
    ELSE IF ~InBounds(g, to) THEN [msg |-> msg, res |-> Panic]
    ELSE [msg |-> NormalizeIf(norm, msg).msg, res |-> Ok]

\* a worker takes the next message of its chunk up to the lock
B_Check(w) ==
    /\ pc = "thrB"
    /\ workers[w].pc = "check"
    /\ LET m == Head(workers[w].chunk)
           r == ThreadedCheck(nodes, m[2], m[3], normalize, check_validity)
       IN  workers' =
              IF r.res.ok
              THEN [workers EXCEPT ![w].pc = "lock",
                                   ![w].cur = <<m[1], m[2], r.msg>>]
              ELSE [workers EXCEPT ![w].pc = "done", ![w].res = r.res,
                                   ![w].chunk = <<>>]
    /\ UNCHANGED <<nodes, step, normalize, check_validity, last, pc, call,
                   cursor, outgoing, queue, locks, hist>>

\* nodes[to].lock() that does not wait for the mutex
B_Lock_NoWait(w) ==
    /\ pc = "thrB"
    /\ workers[w].pc = "lock"
    /\ locks' = [locks EXCEPT ![workers[w].cur[2] + 1] = w]
    /\ workers' = [workers EXCEPT ![w].pc = "deposit"]
    /\ UNCHANGED <<nodes, step, normalize, check_validity, last, pc, call,
                   cursor, outgoing, queue, hist>>

\* nodes[to].lock(): the worker waits until the mutex is free
B_Lock(w) ==
    /\ pc = "thrB"
    /\ workers[w].pc = "lock"
    /\ locks[workers[w].cur[2] + 1] = 0
    /\ locks' = [locks EXCEPT ![workers[w].cur[2] + 1] = w]
    /\ workers' = [workers EXCEPT ![w].pc = "deposit"]
    /\ UNCHANGED <<nodes, step, normalize, check_validity, last, pc, call,
                   cursor, outgoing, queue, hist>>

\* send_threaded with the destination locked: the edge test, then send_post
DepositThreaded(g, from, to, msg) ==
    IF ~Contains(Adj(g, to), from) THEN [nodes |-> g, res |-> Err("MissingEdge")]
    ELSE [nodes |-> SetNode(g, to, Node_send_post(NodeAt(g, to), from, msg)),
          res |-> Ok]

\* a worker that appends and keeps the guard of the destination
B_Deposit_KeepsGuard(w) ==
    /\ pc = "thrB"
    /\ workers[w].pc = "deposit"
    /\ LET m == workers[w].cur
           r == DepositThreaded(nodes, m[1], m[2], m[3])
       IN  /\ nodes' = r.nodes
           /\ IF r.res.ok
              THEN /\ hist' = [hist EXCEPT !.deposited = @ + 1]
                   /\ workers' = [workers EXCEPT
                                     ![w].chunk = Tail(@), ![w].cur = <<>>,
                                     ![w].pc = IF Tail(workers[w].chunk) = <<>>
                                               THEN "take" ELSE "check"]
              ELSE /\ workers' = [workers EXCEPT ![w].pc = "done", ![w].res = r.res,
                                                 ![w].chunk = <<>>, ![w].cur = <<>>]
                   /\ UNCHANGED hist
    /\ UNCHANGED <<step, normalize, check_validity, last, pc, call, cursor,
                   outgoing, queue, locks>>

\* a worker that holds the mutex of the destination tests the edge and
\* appends; the guard is dropped at the end of the iteration
B_Deposit(w) ==
    /\ pc = "thrB"
    /\ workers[w].pc = "deposit"
    /\ LET m == workers[w].cur
           r == DepositThreaded(nodes, m[1], m[2], m[3])
       IN  /\ nodes' = r.nodes
           /\ locks' = [locks EXCEPT ![m[2] + 1] = 0]
           /\ IF r.res.ok
              THEN /\ hist' = [hist EXCEPT !.deposited = @ + 1]
                   /\ workers' = [workers EXCEPT
                                     ![w].chunk = Tail(@), ![w].cur = <<>>,
                                     ![w].pc = IF Tail(workers[w].chunk) = <<>>
                                               THEN "take" ELSE "check"]
              ELSE /\ workers' = [workers EXCEPT ![w].pc = "done", ![w].res = r.res,
                                                 ![w].chunk = <<>>, ![w].cur = <<>>]
                   /\ UNCHANGED hist
    /\ UNCHANGED <<step, normalize, check_validity, last, pc, call, cursor,
                   outgoing, queue>>

\* the scope of send_threaded ends: self.step += 1 when it gave Ok
B_Join ==
    /\ pc = "thrB"
    /\ JoinReady(workers)
    /\ IF JoinResult(workers) = Panic
       THEN /\ Crashed
            /\ hist' = [hist EXCEPT !.outcome = "crashed", !.res = Panic]
            /\ UNCHANGED <<step, call>>
       ELSE IF ~JoinResult(workers).ok
       THEN /\ Returned(JoinResult(workers))
            /\ hist' = [hist EXCEPT !.outcome = "failed",
                                    !.res = JoinResult(workers)]
            /\ UNCHANGED <<step, call>>
       ELSE StepEnd
    /\ UNCHANGED <<nodes, normalize, check_validity>>

NextProp ==
    \/ CallPropagateStep
    \/ CallPropagateStepThreaded
    \/ CallPropagate
    \/ CallPropagateThreaded
    \/ StepBegin
    \/ SeqCreate
    \/ SeqCreateDone
    \/ SeqSend
    \/ SeqSendDone
    \/ \E w \in DOMAIN workers : A_Take(w)
    \/ \E w \in DOMAIN workers : A_Create(w)
    \/ A_Join
    \/ \E w \in DOMAIN workers : B_Take(w)
    \/ \E w \in DOMAIN workers : B_Check(w)
    \/ \E w \in DOMAIN workers : B_Lock(w)
    \/ \E w \in DOMAIN workers : B_Deposit(w)
    \/ B_Join

SpecProp == InitProp /\ [][NextProp]_vars

\* ------------------------------------------------------------------------
\* Specification of one VariableNode, driven through its own methods
\* ------------------------------------------------------------------------

\* the values of InputNeed
InputNeeds == {"AlwaysExceptFirst", "NeverExceptFirst", "Always", "Never"}

\* the recv_from / inbox vectors a VariableNode is handed: one message from
\* each of the senders 0 .. n-1, for every n up to MaxArity
VarInboxes ==
    {[k \in 1..n |-> <<k - 1, Uniform(Rat(1, 2))>>] : n \in 0..MaxArity}

\* the connections initialize() is handed: 0 .. k-1 for a degree k
VarConnections == {[k \in 1..a |-> k - 1] : a \in 0..MaxArity}

\* the VariableNode of this specification
TheVar == nodes[1]

\* VariableNode::new()
InitVar ==
    /\ nodes = <<VariableNode_new>>
    /\ step = 0
    /\ normalize = TRUE
    /\ check_validity = FALSE
    /\ last = Call("new", 0, 0, <<>>, Ok)
    /\ DriverIdle

VarSetPrior ==
    /\ pc = "idle"
    /\ LET r == VariableNode_set_prior(TheVar, Uniform(Rat(1, 2)))
       IN  /\ nodes' = <<r.nf>>
           /\ last' = Call("set_prior", 0, 0, nodes, r.res)
    /\ UNCHANGED <<step, normalize, check_validity, driver>>

VarSetInputNeed ==
    /\ pc = "idle"
    /\ \E input_need \in InputNeeds :
          /\ nodes' = <<VariableNode_set_input_need(TheVar, input_need)>>
          /\ last' = Call("set_input_need", 0, 0, nodes, Ok)
    /\ UNCHANGED <<step, normalize, check_validity, driver>>

VarSetSendToAll ==
    /\ pc = "idle"
    /\ \E send_to_all \in BOOLEAN :
          /\ nodes' = <<VariableNode_set_send_to_all(TheVar, send_to_all)>>
          /\ last' = Call("set_send_to_all", 0, 0, nodes, Ok)
    /\ UNCHANGED <<step, normalize, check_validity, driver>>

VarInitialize ==
    /\ pc = "idle"
    /\ \E connections \in VarConnections :
          /\ nodes' = <<NF_initialize(TheVar, connections)>>
          /\ last' = Call("initialize", 0, 0, nodes, Ok)
    /\ UNCHANGED <<step, normalize, check_validity, driver>>

\* is_ready(recv_from, step): i is recv_from, j the answer
VarIsReady ==
    /\ \E recv_from \in VarInboxes :
          IF NF_is_ready_panics(TheVar)
          THEN /\ pc' = "crashed"
               /\ last' = Call("is_ready", recv_from, FALSE, nodes, Panic)
          ELSE /\ pc' = pc
               /\ last' = Call("is_ready", recv_from,
                               VariableNode_is_ready(TheVar, recv_from), nodes, Ok)
    /\ pc = "idle"
    /\ UNCHANGED <<nodes, step, normalize, check_validity, call, cursor,
                   outgoing, queue, workers, locks, hist>>

\* node_function(inbox): i is the inbox, j the messages returned
VarNodeFunction ==
    /\ pc = "idle"
    /\ \E inbox \in VarInboxes :
          LET r == VariableNode_node_function(TheVar, inbox)
          IN  /\ nodes' = <<r.nf>>
              /\ pc' = IF r.res = Panic THEN "crashed" ELSE pc
              /\ last' = Call("node_function", inbox, r.out, nodes, r.res)
    /\ UNCHANGED <<step, normalize, check_validity, call, cursor, outgoing,
                   queue, workers, locks, hist>>

VarReset ==
    /\ pc = "idle"
    /\ nodes' = <<NF_reset(TheVar)>>
    /\ last' = Call("reset", 0, 0, nodes, Ok)
    /\ UNCHANGED <<step, normalize, check_validity, driver>>

NextVar ==
    \/ VarSetPrior
    \/ VarSetInputNeed
    \/ VarSetSendToAll
    \/ VarInitialize
    \/ VarIsReady
    \/ VarNodeFunction
    \/ VarReset

SpecVar == InitVar /\ [][NextVar]_vars

\* ------------------------------------------------------------------------
\* Specification of VariableNode::node_function as a function of its inbox
\* ------------------------------------------------------------------------

\* Largest degree of the VariableNode whose node_function is applied, and
\* largest number of messages in the inbox it is handed.
MaxInbox == 3

\* the message that gives value 1 the probability a and value 2 the
\* probability b
Skew(a, b) == [v \in Domain |-> IF v = 1 THEN a ELSE b]

\* the messages the inbox of the VariableNode is filled with
CombineMsgs ==
    {Uniform(Rat(1, 2)), Skew(Rat(1, 2), Rat(1, 4)), Skew(Rat(1, 5), Rat(1, 2))}

\* the inboxes of n messages whose senders are distinct nodes of 0 .. A-1
RECURSIVE DistinctInboxes(_, _)
DistinctInboxes(A, n) ==
    IF n = 0 THEN {<<>>}
    ELSE UNION {{Append(b, <<from, msg>>) :
                    from \in (0..(A - 1)) \ Senders(b), msg \in CombineMsgs} :
                b \in DistinctInboxes(A, n - 1)}

\* an initialized VariableNode of degree 1 .. MaxInbox, with or without a
\* prior, with send_to_all set or not
InitCombine ==
    /\ \E A \in 1..MaxInbox, prior \in {None} \cup {Some(m) : m \in CombineMsgs},
          send_to_all \in BOOLEAN :
          nodes = <<NF_initialize(
                       VariableNode_set_send_to_all(VariableNode_prior(prior),
                                                    send_to_all),
                       [k \in 1..A |-> k - 1])>>
    /\ step = 0
    /\ normalize = TRUE
    /\ check_validity = FALSE
    /\ last = Call("initialize", 0, 0, <<>>, Ok)
    /\ DriverIdle

\* the first node_function(inbox) call of the node, on an inbox of
\* 1 .. degree messages from distinct neighbours: i is the inbox, j the
\* messages returned
Combine ==
    /\ pc = "idle"
    /\ last.op = "initialize"
    /\ \E n \in 1..Len(Unwrap(TheVar.connections)) :
          \E inbox \in DistinctInboxes(Len(Unwrap(TheVar.connections)), n) :
             LET r == VariableNode_node_function(TheVar, inbox)
             IN  /\ nodes' = <<r.nf>>
                 /\ pc' = IF r.res = Panic THEN "crashed" ELSE pc
                 /\ last' = Call("node_function", inbox, r.out, nodes, r.res)
    /\ UNCHANGED <<step, normalize, check_validity, call, cursor, outgoing,
                   queue, workers, locks, hist>>

NextCombine == Combine

SpecCombine == InitCombine /\ [][NextCombine]_vars

\* ------------------------------------------------------------------------
\* Graph construction: claims C1 to C5
\* ------------------------------------------------------------------------

\* the entries of the adjacency list of node i
AdjSet(g, i) == {Adj(g, i)[k] : k \in 1..Len(Adj(g, i))}

\* node i declares the arity k and holds k neighbours already
ArityFull(g, i) ==
    /\ Node_number_inputs(NodeAt(g, i)) # None
    /\ Len(Adj(g, i)) = Unwrap(Node_number_inputs(NodeAt(g, i)))

\* C1: in every state reached by add_node and add_edge calls, failed calls
\* included, every entry j of the adjacency list of a node i names a node of
\* the other kind (is_factor(i) # is_factor(j)), and a call add_edge(i, i)
\* returned an error.
C1_Bipartite ==
    /\ \A i \in Indices(nodes) : \A j \in AdjSet(nodes, i) :
          /\ InBounds(nodes, j)
          /\ Node_is_factor(NodeAt(nodes, i)) # Node_is_factor(NodeAt(nodes, j))
    /\ (last.op = "add_edge" /\ last.i = last.j) => ~last.res.ok

\* C1's case: add_edge(i, i) was just rejected on a graph that holds an edge.
C1_Witness ==
    /\ last.op = "add_edge"
    /\ last.i = last.j
    /\ InBounds(nodes, last.i)
    /\ last.res = Err("BipartiteViolation")
    /\ \E i \in Indices(nodes) : Adj(nodes, i) # <<>>

\* C2: in every state reached by add_node and add_edge calls, failed calls
\* included, j is in adj(i) if and only if i is in adj(j).
C2_SymmetricAdjacency ==
    \A i \in Indices(nodes) : \A j \in Indices(nodes) :
        Contains(Adj(nodes, i), j) <=> Contains(Adj(nodes, j), i)

\* C3: add_edge(i, j) is an atomic pair insert: when it returns an error the
\* adjacency lists (the whole node vector) are what they were before the
\* call.
C3_AtomicPairInsert ==
    (last.op = "add_edge" /\ ~last.res.ok) => nodes = last.pre

\* the conditions under which add_edge(i, j) is said to fail, on graph g
AddEdgeErrCond(g, i, j) ==
    \/ ~InBounds(g, i)
    \/ ~InBounds(g, j)
    \/ /\ InBounds(g, i)
       /\ InBounds(g, j)
       /\ \/ Node_is_factor(NodeAt(g, i)) = Node_is_factor(NodeAt(g, j))
          \/ Contains(Adj(g, i), j)
          \/ ArityFull(g, i)
          \/ ArityFull(g, j)

\* C4: add_edge(i, j) returns an error exactly when an index is out of
\* bounds, both nodes are of one kind, j is already a neighbour of i, or an
\* endpoint of declared arity k already has k neighbours; otherwise it
\* succeeds and then j occurs exactly once in adj(i) and i exactly once in
\* adj(j).
C4_AddEdgeOutcome ==
    last.op = "add_edge" =>
        /\ ~last.res.ok <=> AddEdgeErrCond(last.pre, last.i, last.j)
        /\ last.res.ok =>
              /\ Count(Adj(nodes, last.i), last.j) = 1
              /\ Count(Adj(nodes, last.j), last.i) = 1

\* C4's case: add_edge succeeded and gave a factor of declared arity 2 its
\* second neighbour.
C4_Witness ==
    /\ last.op = "add_edge"
    /\ last.res.ok
    /\ Node_number_inputs(NodeAt(nodes, last.j)) = Some(2)
    /\ Len(Adj(nodes, last.j)) = 2

\* node i of g declares an arity that its degree does not equal
ArityMismatch(g, i) ==
    /\ Node_number_inputs(NodeAt(g, i)) # None
    /\ Len(Adj(g, i)) # Unwrap(Node_number_inputs(NodeAt(g, i)))

InboxesAlongEdges(g) ==
    \A i \in Indices(g) : \A k \in 1..Len(NodeAt(g, i).inbox) :
        Contains(Adj(g, i), NodeAt(g, i).inbox[k][1])

\* message m = <<from, to, msg>> is addressed to a node of g that does not
\* list its sender
Misaddressed(g, m) == InBounds(g, m[2]) /\ ~Contains(Adj(g, m[2]), m[1])

\* Phase A of the last step produced a misaddressed message
ProducedMisaddressed ==
    \E k \in 1..Len(hist.produced) : Misaddressed(nodes, hist.produced[k])

\* message m passes every test of send and send_threaded but the edge test
Clean(m) ==
    /\ InBounds(nodes, m[2])
    /\ NormalizeIf(normalize, m[3]).res.ok
    /\ check_validity =>
          /\ Msg_is_valid(m[3])
          /\ Msg_is_valid(NormalizeIf(normalize, m[3]).msg)

\* the last step has ended
StepEnded == hist.outcome \in {"ok", "failed", "crashed"}

\* C6 as stated: every message in an inbox was sent along an edge, and a
\* step whose Phase A produced a message (from, to) with from not in adj(to)
\* fails with MissingEdge, whether check_validity is true or false
C6_MissingEdgeAlways ==
    /\ InboxesAlongEdges(nodes)
    /\ (StepEnded /\ ProducedMisaddressed) =>
          (hist.outcome = "failed" /\ hist.res = Err("MissingEdge"))

\* C6 amended: every message in an inbox was sent along an edge; a step
\* whose Phase A produced a misaddressed message never succeeds, whether
\* check_validity is true or false; and it fails with MissingEdge when every
\* message of the step passes the tests other than the edge test
C6_NoDepositOffEdge ==
    /\ InboxesAlongEdges(nodes)
    /\ (StepEnded /\ ProducedMisaddressed) =>
          /\ hist.outcome # "ok"
          /\ (\A k \in 1..Len(hist.produced) : Clean(hist.produced[k])) =>
                (hist.outcome = "failed" /\ hist.res = Err("MissingEdge"))

\* a threaded step without validity checks deposited a message and then
\* refused a misaddressed one
C6_Witness ==
    /\ Threaded
    /\ ~check_validity
    /\ hist.outcome = "failed"
    /\ hist.res = Err("MissingEdge")
    /\ ProducedMisaddressed
    /\ hist.deposited > 0

\* the nodes that were ready when the last step began
ReadyAtStart == {i \in Indices(hist.snap) : Node_is_ready(NodeAt(hist.snap, i))}

\* C7: during Phase A no inbox is written (each holds what it held when the
\* step began, or nothing once it was read); what create_messages reads is
\* the inbox of the start of the step; Phase B begins only when every node
\* that was ready at the start has been read; and a step has ended, and the
\* next may begin, only when every produced message has been deposited
C7_PhaseBarriers ==
    /\ pc \in {"seqA", "thrA"} =>
          /\ hist.deposited = 0
          /\ \A i \in Indices(nodes) :
                NodeAt(nodes, i).inbox \in {NodeAt(hist.snap, i).inbox, <<>>}
    /\ hist.consumed \subseteq
          {<<i, NodeAt(hist.snap, i).inbox>> : i \in Indices(hist.snap)}
    /\ (pc \in {"seqB", "thrB"} \/ hist.outcome = "ok") =>
          hist.consumed = {<<i, NodeAt(hist.snap, i).inbox>> : i \in ReadyAtStart}
    /\ hist.outcome = "ok" => hist.deposited = Len(hist.produced)
    /\ pc \in {"step", "seqA", "thrA"} =>
          \A w \in DOMAIN workers : workers[w].pc \in {"take", "create", "done"}

\* Phase B of the second step of a threaded call is under way with two
\* workers, and Phase A read an inbox that the first step had filled
C7_Witness ==
    /\ pc = "thrB"
    /\ call.T = 2
    /\ call.done = 1
    /\ hist.deposited > 0
    /\ \E c \in hist.consumed : c[2] # <<>>

\* C8: when propagate_threaded(k, T) has returned or panicked, propagate(k)
\* on the graph the call started from ends the same way (both Ok, or both
\* not) and, on success, gives every node the same get_result
C8_SequentialEqualsThreaded ==
    (pc \in {"idle", "crashed"} /\ call.op = "propagate_threaded") =>
        LET s == BPGraph_propagate(call.start, call.start_step, normalize,
                                   check_validity, call.steps)
        IN  /\ s.res.ok = last.res.ok
            /\ s.res.ok =>
                  \A i \in Indices(nodes) :
                      Node_get_result(NodeAt(s.nodes, i))
                          = Node_get_result(NodeAt(nodes, i))

\* C9: the counter is 0 before any step; it is the counter of the start of
\* the call plus the steps the call completed; it keeps the value of the
\* start of the step during both phases and when the step fails, and is one
\* more once the step has succeeded; a call that returned Ok ran all its
\* steps, and a call that returned an error began no step after the one
\* that failed
C9_StepCounter ==
    /\ call.op = "none" => step = 0
    /\ call.op # "none" => step = call.start_step + call.done
    /\ pc \in {"seqA", "seqB", "thrA", "thrB"} => step = hist.step0
    /\ hist.outcome \in {"failed", "crashed"} => step = hist.step0
    /\ hist.outcome = "ok" => step = hist.step0 + 1
    /\ (pc = "idle" /\ call.op # "none") =>
          IF last.res.ok
          THEN call.done = call.steps /\ call.tried = call.steps
          ELSE IF last.res = Err("NotInitialized")
          THEN call.done = 0 /\ call.tried = 0
          ELSE call.tried = call.done + 1 /\ call.done < call.steps

\* propagate_threaded(2, T) completed its first step and failed in the second
C9_Witness ==
    /\ pc = "idle"
    /\ call.op = "propagate_threaded"
    /\ call.steps = 2
    /\ ~last.res.ok
    /\ call.done = 1
    /\ step = call.start_step + 1

\* ------------------------------------------------------------------------
\* VariableNode: claim C10
\* ------------------------------------------------------------------------

\* the readiness policy: inbox size I, degree A, prior presence,
\* has_propagated and InputNeed
ReadyPolicy(I, A, has_prior, has_propagated, input_need) ==
    IF I = A THEN TRUE
    ELSE IF I = 0 /\ ~has_prior THEN FALSE
    ELSE IF input_need = "Always" THEN FALSE
    ELSE IF input_need = "AlwaysExceptFirst" THEN ~has_propagated
    ELSE IF input_need = "NeverExceptFirst" THEN has_propagated
    ELSE TRUE

\* C10: is_ready answers as the policy says; has_propagated is false on a
\* new node, true after a node_function call that returned, and changed by
\* no other method
C10_ReadyPolicy ==
    /\ (last.op = "is_ready" /\ last.res.ok) =>
          last.j = ReadyPolicy(Len(last.i), Len(Unwrap(TheVar.connections)),
                               TheVar.prior # None, TheVar.has_propagated,
                               TheVar.needs_all_inputs)
    /\ last.op = "new" => ~TheVar.has_propagated
    /\ (last.op = "node_function" /\ last.res # Panic) => TheVar.has_propagated
    /\ last.op \notin {"new", "node_function"} =>
          TheVar.has_propagated = last.pre[1].has_propagated

\* is_ready was asked on a node of degree 2 that has propagated, with an
\* inbox of one message, under NeverExceptFirst, and answered true
C10_Witness ==
    /\ last.op = "is_ready"
    /\ last.res.ok
    /\ Len(Unwrap(TheVar.connections)) = 2
    /\ Len(last.i) = 1
    /\ TheVar.has_propagated
    /\ TheVar.needs_all_inputs = "NeverExceptFirst"
    /\ last.j = TRUE

\* ------------------------------------------------------------------------
\* VariableNode: claims C11 and C12
\* ------------------------------------------------------------------------

\* a = c * b for some c # 0: the messages are equal up to normalization
Proportional(a, b) ==
    /\ DOMAIN a = DOMAIN b
    /\ \A v \in DOMAIN a, w \in DOMAIN a : RMul(a[v], b[w]) = RMul(a[w], b[v])
    /\ \A v \in DOMAIN a : (a[v].n = 0) = (b[v].n = 0)

\* the pointwise product of acc and the messages of inbox[k..] whose sender
\* is not j
RECURSIVE ProductExcept(_, _, _, _)
ProductExcept(inbox, k, j, acc) ==
    IF k > Len(inbox) THEN acc
    ELSE ProductExcept(inbox, k + 1, j,
                       IF inbox[k][1] = j THEN acc
                       ELSE [v \in Domain |-> RMul(acc[v], inbox[k][2][v])])

\* the naive definition of the message to neighbour j: the product of the
\* prior (if any) and the inbox messages whose sender is not j
Naive(nf, inbox, j) ==
    ProductExcept(inbox, 1, j,
                  IF nf.prior # None THEN Unwrap(nf.prior)
                  ELSE [v \in Domain |-> Rat(1, 1)])

\* the message of out addressed to j (the first, if several)
MsgTo(out, j) == out[CHOOSE k \in 1..Len(out) : out[k][1] = j /\ \A h \in 1..(k - 1) : out[h][1] # j][2]

\* C11: every message node_function emits on an inbox of n >= 1 messages
\* from distinct neighbours equals, up to normalization, the product of the
\* prior (if any) and the inbox messages of the other senders
C11_TwoPassEqualsNaive ==
    (last.op = "node_function" /\ last.res.ok) =>
        \A k \in 1..Len(last.j) :
            Proportional(last.j[k][2], Naive(last.pre[1], last.i, last.j[k][1]))

\* the inbox b holds the entries of the inbox a in some order
SameEntries(a, b) ==
    /\ Len(a) = Len(b)
    /\ {a[k] : k \in 1..Len(a)} = {b[k] : k \in 1..Len(b)}

\* C12: without a prior, the message emitted to each neighbour is the same,
\* up to normalization, for every ordering of the inbox entries
C12_OrderIndependent ==
    (last.op = "node_function" /\ last.res.ok /\ last.pre[1].prior = None) =>
        \A other \in DistinctInboxes(Len(Unwrap(TheVar.connections)), Len(last.i)) :
            SameEntries(last.i, other) =>
                LET o == VariableNode_node_function(last.pre[1], other).out
                IN  /\ {o[k][1] : k \in 1..Len(o)}
                          = {last.j[k][1] : k \in 1..Len(last.j)}
                    /\ \A k \in 1..Len(last.j) :
                          Proportional(last.j[k][2], MsgTo(o, last.j[k][1]))

\* ------------------------------------------------------------------------
\* VariableNode in a step: claims C13 and C14
\* ------------------------------------------------------------------------

\* node i was a VariableNode with a prior and an empty inbox when the last
\* step began, and the step called its node_function
PriorOnly(i) ==
    /\ NodeAt(hist.snap, i).node_function.type = "VariableNode"
    /\ NodeAt(hist.snap, i).node_function.prior # None
    /\ NodeAt(hist.snap, i).inbox = <<>>
    /\ <<i, <<>>>> \in hist.consumed

\* node i was a VariableNode without prior and with an empty inbox when the
\* last step began, and the step called its node_function
NothingToSend(i) ==
    /\ NodeAt(hist.snap, i).node_function.type = "VariableNode"
    /\ NodeAt(hist.snap, i).node_function.prior = None
    /\ NodeAt(hist.snap, i).inbox = <<>>
    /\ <<i, <<>>>> \in hist.consumed

\* the messages that node `to` of g holds from node `from`, in order
EntriesFrom(g, to, from) ==
    LET own == SelectSeq(NodeAt(g, to).inbox, LAMBDA e : e[1] = from)
    IN  [k \in 1..Len(own) |-> own[k][2]]

\* Phase A of the last step has returned its messages
PhaseADone == pc \in {"seqB", "thrB"} \/ hist.outcome = "ok"

\* C13: a VariableNode with an empty inbox and a prior emits exactly one
\* message to each neighbour, the prior; when the step succeeds each
\* neighbour has received from it one entry, the prior as the graph
\* normalizes it; with an empty inbox and no prior node_function fails with
\* EmptyInbox, nothing is emitted and the step fails
C13_PriorBroadcast ==
    \A i \in Indices(hist.snap) :
        /\ (PriorOnly(i) /\ PhaseADone) =>
              SelectSeq(hist.produced, LAMBDA m : m[1] = i)
                 = [k \in 1..Len(Adj(nodes, i)) |->
                       <<i, Adj(nodes, i)[k],
                         Unwrap(NodeAt(hist.snap, i).node_function.prior)>>]
        /\ (PriorOnly(i) /\ hist.outcome = "ok") =>
              \A k \in 1..Len(Adj(nodes, i)) :
                  EntriesFrom(nodes, Adj(nodes, i)[k], i)
                     = (IF Adj(nodes, i)[k] \in ReadyAtStart THEN <<>>
                        ELSE EntriesFrom(hist.snap, Adj(nodes, i)[k], i))
                       \o <<NormalizeIf(normalize,
                               Unwrap(NodeAt(hist.snap, i).node_function.prior)).msg>>
        /\ NothingToSend(i) =>
              /\ hist.produced = <<>>
              /\ hist.deposited = 0
              /\ StepEnded => (hist.outcome = "failed" /\ hist.res = Err("EmptyInbox"))

\* a threaded step that normalizes has succeeded, and a variable with a
\* prior and an empty inbox took part in it
C13_Witness ==
    /\ Threaded
    /\ normalize
    /\ hist.outcome = "ok"
    /\ \E i \in Indices(hist.snap) : PriorOnly(i) /\ Adj(nodes, i) # <<>>

\* the readiness of node i of g on an empty inbox
ReadyOnEmpty(g, i) == Node_is_ready([NodeAt(g, i) EXCEPT !.inbox = <<>>])

\* C14 as stated: a step in which a VariableNode with an empty inbox and a
\* prior takes part leaves the state of the variable (prior, has_propagated,
\* InputNeed, send_to_all, connections) unchanged, and with it its readiness
C14_PriorOnlyUnchanged ==
    \A i \in Indices(hist.snap) :
        PriorOnly(i) =>
            /\ NodeAt(nodes, i).node_function = NodeAt(hist.snap, i).node_function
            /\ NodeAt(nodes, i).connections = NodeAt(hist.snap, i).connections
            /\ ReadyOnEmpty(nodes, i) = ReadyOnEmpty(hist.snap, i)

\* C14 amended: the step leaves the prior, InputNeed, send_to_all and the
\* connections of the variable unchanged and sets has_propagated; and when
\* the step succeeds every neighbour has received the prior (C13)
C14_PriorOnlyFrame ==
    \A i \in Indices(hist.snap) :
        PriorOnly(i) =>
            /\ NodeAt(nodes, i).node_function
                  = [NodeAt(hist.snap, i).node_function EXCEPT !.has_propagated = TRUE]
            /\ NodeAt(nodes, i).connections = NodeAt(hist.snap, i).connections
            /\ NodeAt(nodes, i).is_initialized
            /\ hist.outcome = "ok" =>
                  \A k \in 1..Len(Adj(nodes, i)) :
                      EntriesFrom(nodes, Adj(nodes, i)[k], i) # <<>>

\* a step has succeeded in which a variable with a prior and an empty inbox
\* propagated for the first time, and it is no longer ready on an empty
\* inbox
C14_Witness ==
    /\ hist.outcome = "ok"
    /\ \E i \in Indices(hist.snap) :
          /\ PriorOnly(i)
          /\ ~NodeAt(hist.snap, i).node_function.has_propagated
          /\ ReadyOnEmpty(hist.snap, i)
          /\ ~ReadyOnEmpty(nodes, i)


\* ------------------------------------------------------------------------
\* Specification of the life cycle of a built graph: initialize, propagate,
\* reset, each call in one step
\* ------------------------------------------------------------------------

\* the number of calls made on a graph of the life cycle
MaxCycleCalls == 3

\* BPGraph::initialize_node(node_index, Some(msgs)): the messages are sent
\* as messages of node_index, the result of send is dropped, then the node
\* is initialized
BPGraph_initialize_node_msgs(g, i, msgs, norm, chk) ==
    BPGraph_initialize_node(BPGraph_send(g, <<(<<i, msgs>>)>>, norm, chk).nodes, i)

\* the loop of BPGraph::initialize_node_constant_msg: one send_post per
\* connection of the node, from the k-th connection on
RECURSIVE ConstantMsgFrom(_, _, _)
ConstantMsgFrom(n, k, msg) ==
    IF k > Len(n.connections) THEN n
    ELSE ConstantMsgFrom(Node_send_post(n, n.connections[k], msg), k + 1, msg)

\* the loop of initialize_node_constant_msg, were it to deposit in the
\* inboxes of the neighbours: from the k-th connection of node i on
RECURSIVE ConstantMsgToNeighbours(_, _, _, _)
ConstantMsgToNeighbours(g, i, k, msg) ==
    IF k > Len(Adj(g, i)) THEN g
    ELSE ConstantMsgToNeighbours(
             IF InBounds(g, Adj(g, i)[k])
             THEN SetNode(g, Adj(g, i)[k], Node_send_post(NodeAt(g, Adj(g, i)[k]), i, msg))
             ELSE g,
             i, k + 1, msg)

\* initialize_node_constant_msg depositing in the neighbours' inboxes
BPGraph_initialize_node_constant_msg_ToNeighbours(g, i, msg) ==
    IF ~InBounds(g, i) THEN [nodes |-> g, res |-> Err("IndexOutOfBounds")]
    ELSE LET h == ConstantMsgToNeighbours(g, i, 1, msg)
             r == Node_initialize(NodeAt(h, i))
         IN  [nodes |-> SetNode(h, i, r.node), res |-> r.res]

\* BPGraph::initialize_node_constant_msg: the messages are deposited before
\* the node is initialized
BPGraph_initialize_node_constant_msg(g, i, msg) ==
    IF ~InBounds(g, i) THEN [nodes |-> g, res |-> Err("IndexOutOfBounds")]
    ELSE LET r == Node_initialize(ConstantMsgFrom(NodeAt(g, i), 1, msg))
         IN  [nodes |-> SetNode(g, i, r.node), res |-> r.res]

\* variables 0 and 1 joined by factor 2, before initialize() is called
CycleChain(prior0, prior1) ==
    AddEdges(AddNodes(<<>>,
                 <<VariableNode_prior(prior0), VariableNode_prior(prior1),
                   UserNode_with(TRUE, Some(2), "Full",
                       [res |-> Ok, out |-> <<(<<0, Uniform(Rat(1, 2))>>),
                                              (<<1, Uniform(Rat(1, 2))>>)>>])>>),
             <<(<<0, 2>>), (<<2, 1>>)>>)

\* a factor of declared arity 2 with one neighbour: its initialization fails
Short ==
    AddEdges(AddNodes(<<>>, <<VariableNode_prior(Some(Uniform(Rat(1, 2)))),
                              UserNode_new(TRUE, Some(2))>>),
             <<(<<0, 1>>)>>)

\* the graphs the life cycle is run on, as they are after the last add_edge
CycleGraphs ==
    {CycleChain(Some(Uniform(Rat(1, 2))), p1) : p1 \in {None, Some(Uniform(Rat(3, 5)))}}
    \cup {Short}

InitCycle ==
    /\ nodes \in CycleGraphs
    /\ step = 0
    /\ normalize \in BOOLEAN
    /\ check_validity \in BOOLEAN
    /\ last = Call("new", 0, 0, <<>>, Ok)
    /\ DriverIdle

\* hist.built keeps the graph as it was when every node was initialized for
\* the first time
Snapshot(g) ==
    IF hist.built = <<>> /\ BPGraph_is_initialized(g)
    THEN [hist EXCEPT !.built = g]
    ELSE hist

\* one more call is made; the variables it leaves alone
CycleFrame ==
    /\ pc = "idle"
    /\ call.n < MaxCycleCalls
    /\ call' = [call EXCEPT !.n = @ + 1]
    /\ UNCHANGED <<normalize, check_validity, pc, cursor, outgoing, queue,
                   workers, locks>>

CycleInitialize ==
    /\ LET r == BPGraph_initialize(nodes)
       IN  /\ nodes' = r.nodes
           /\ last' = Call("initialize", 0, 0, nodes, r.res)
           /\ hist' = Snapshot(r.nodes)
    /\ UNCHANGED step
    /\ CycleFrame

\* initialize_node(i, None) and initialize_node(i, Some([(to, msg)])); the
\* call record keeps the number of messages given
CycleInitializeNode ==
    /\ \E i \in 0..Len(nodes) :
          \/ LET r == BPGraph_initialize_node(nodes, i)
             IN  /\ nodes' = r.nodes
                 /\ last' = Call("initialize_node", i, 0, nodes, r.res)
                 /\ hist' = Snapshot(r.nodes)
          \/ \E to \in Indices(nodes) :
                /\ NodeAt(nodes, to).inbox = <<>>
                /\ LET r == BPGraph_initialize_node_msgs(nodes, i,
                                <<(<<to, Uniform(Rat(1, 2))>>)>>,
                                normalize, check_validity)
                   IN  /\ nodes' = r.nodes
                       /\ last' = Call("initialize_node", i, 1, nodes, r.res)
                       /\ hist' = Snapshot(r.nodes)
    /\ UNCHANGED step
    /\ CycleFrame

CycleInitializeNodeConstantMsg ==
    /\ \E i \in 0..Len(nodes) :
          /\ InBounds(nodes, i) => NodeAt(nodes, i).inbox = <<>>
          /\ LET r == BPGraph_initialize_node_constant_msg(nodes, i, Uniform(Rat(1, 2)))
             IN  /\ nodes' = r.nodes
                 /\ last' = Call("initialize_node_constant_msg", i, 0, nodes, r.res)
                 /\ hist' = Snapshot(r.nodes)
    /\ UNCHANGED step
    /\ CycleFrame

\* propagate(steps), run by the sequential driver
CyclePropagate ==
    /\ pc = "idle"
    /\ call.n < MaxCycleCalls
    /\ \E steps \in 1..MaxSteps : EnterLoop("propagate", steps, 0)
    /\ UNCHANGED <<nodes, step, normalize, check_validity, cursor,
                   outgoing, queue, workers, locks, hist>>

CycleReset ==
    /\ nodes' = BPGraph_reset(nodes)
    /\ last' = Call("reset", 0, 0, nodes, Ok)
    /\ UNCHANGED <<step, hist>>
    /\ CycleFrame

NextCycle ==
    \/ CycleInitialize
    \/ CycleInitializeNode
    \/ CycleInitializeNodeConstantMsg
    \/ CyclePropagate
    \/ CycleReset
    \/ StepBegin
    \/ SeqCreate
    \/ SeqCreateDone
    \/ SeqSend
    \/ SeqSendDone

SpecCycle == InitCycle /\ [][NextCycle]_vars


\* ------------------------------------------------------------------------
\* C15, C16: reset
\* ------------------------------------------------------------------------

\* what get_inbox, get_result, is_initialized and is_valid return on graph g
Observe(g) ==
    [inbox |-> [k \in 1..Len(g) |-> g[k].inbox],
     result |-> [k \in 1..Len(g) |-> Node_get_result(g[k])],
     is_initialized |-> BPGraph_is_initialized(g),
     is_valid |-> BPGraph_is_valid(g)]

\* what the observers return on g, and the outcome of propagate(steps) on g
\* and what they return after it, for every number of steps
ObserveAll(g) ==
    [now |-> Observe(g),
     after |-> [steps \in 0..MaxSteps |->
                   LET r == BPGraph_propagate(g, step, normalize, check_validity, steps)
                   IN  [res |-> r.res, seen |-> Observe(r.nodes)]]]

\* the last call was a successful initialize() made on a graph as reset()
\* leaves it, and the graph had been built and initialized before
ResetThenInitialized ==
    /\ pc = "idle"
    /\ last.op = "initialize"
    /\ last.res.ok
    /\ hist.built # <<>>
    /\ last.pre = BPGraph_reset(last.pre)

\* C15: after reset() followed by initialize(), get_inbox, get_result,
\* is_initialized, is_valid and the outcome of any propagate return what they
\* return on the graph as it was after build and first initialization
C15_ResetRestoresBuild ==
    ResetThenInitialized => ObserveAll(nodes) = ObserveAll(hist.built)


\* C16: after reset() every inbox is empty, is_initialized() is true and a
\* propagate called next is not refused for want of initialization
C16_ResetReinitializes ==
    (pc = "idle" /\ last.op = "reset" /\ last.res.ok) =>
        /\ \A i \in Indices(nodes) : NodeAt(nodes, i).inbox = <<>>
        /\ BPGraph_is_initialized(nodes)
        /\ \A steps \in 0..MaxSteps :
              BPGraph_propagate(nodes, step, normalize, check_validity, steps).res
                  # Err("NotInitialized")


\* ------------------------------------------------------------------------
\* C17: is_valid
\* ------------------------------------------------------------------------

\* is_valid() called on a graph under construction
IsValid ==
    /\ last' = Call("is_valid", 0, 0, nodes, BPGraph_is_valid(nodes))
    /\ UNCHANGED <<nodes, step, normalize, check_validity, driver>>

NextValid ==
    \/ AddNode
    \/ AddEdge
    \/ IsValid

SpecValid == Init /\ [][NextValid]_vars

\* every node of g has a neighbour, as many neighbours as its declared
\* arity, only neighbours that exist, and is a neighbour of each of them
WellFormed(g) ==
    \A i \in Indices(g) :
        /\ AdjSet(g, i) # {}
        /\ \A k \in 0..(MaxArity + 1) :
              Node_number_inputs(NodeAt(g, i)) = Some(k) => Len(Adj(g, i)) = k
        /\ AdjSet(g, i) \subseteq Indices(g)
        /\ \A j \in AdjSet(g, i) : i \in AdjSet(g, j)

\* C17: is_valid() returns true exactly when every node has a neighbour,
\* every declared arity equals the degree, every neighbour index is in
\* bounds and the adjacency is symmetric; the graph is left as it was
C17_IsValid ==
    last.op = "is_valid" =>
        /\ last.res = WellFormed(last.pre)
        /\ nodes = last.pre

\* is_valid() has returned false on a graph of three nodes whose only defect
\* is a one-sided adjacency
C17_Witness ==
    /\ last.op = "is_valid"
    /\ Len(nodes) = MaxNodes
    /\ ~last.res
    /\ \A i \in Indices(nodes) :
          /\ Adj(nodes, i) # <<>>
          /\ Node_number_inputs(NodeAt(nodes, i)) \in {None, Some(Len(Adj(nodes, i)))}

\* is_valid() has returned true on a graph of three nodes
C17_ValidReached ==
    last.op = "is_valid" /\ Len(nodes) = MaxNodes /\ last.res


\* ------------------------------------------------------------------------
\* Specification of tests::test, the doubling chain
\* ------------------------------------------------------------------------

\* propagate_threaded(2, 1) and propagate(10)
TestThreadedSteps == 2
TestThreads == 1
TestSequentialSteps == 10

\* dist0 and dist1
dist0 == [v \in {1} |-> Rat(1, 1)]
dist1 == [v \in 1..4 |-> Rat(1, 4)]

\* the graph of the test when initialize() has returned: variables 0, 1, 2
\* and the factors m3, m4
TestGraph ==
    BuildGraph(<<VariableNode_prior(Some(dist0)), VariableNode_prior(Some(dist1)),
                 VariableNode_prior(Some(dist1)), TwoNode_new, TwoNode_new>>,
               <<(<<0, 3>>), (<<3, 1>>), (<<1, 4>>), (<<4, 2>>)>>)

InitTest ==
    /\ nodes = TestGraph
    /\ step = 0
    /\ normalize = TRUE
    /\ check_validity = FALSE
    /\ last = Call("initialize", 0, 0, <<>>, Ok)
    /\ DriverIdle

\* g.propagate_threaded(2, 1)?
TestPropagateThreaded ==
    /\ pc = "idle"
    /\ call.n = 0
    /\ EnterLoop("propagate_threaded", TestThreadedSteps, TestThreads)
    /\ UNCHANGED <<nodes, step, normalize, check_validity, cursor,
                   outgoing, queue, workers, locks, hist>>

\* g.propagate(10)? after the threaded steps, or all the steps in one
\* sequential call
TestPropagate ==
    /\ pc = "idle"
    /\ \/ /\ call.n = 0
          /\ EnterLoop("propagate", TestThreadedSteps + TestSequentialSteps, 0)
       \/ /\ call.n = 1
          /\ call.op = "propagate_threaded"
          /\ last.res.ok
          /\ EnterLoop("propagate", TestSequentialSteps, 0)
    /\ UNCHANGED <<nodes, step, normalize, check_validity, cursor,
                   outgoing, queue, workers, locks, hist>>

\* g.get_result(2)? when the steps have run
TestGetResult ==
    /\ pc = "idle"
    /\ last.op = "propagate"
    /\ last.res.ok
    /\ last' = Call("get_result", 2, 0, nodes, Node_get_result(NodeAt(nodes, 2)))
    /\ UNCHANGED <<nodes, step, normalize, check_validity, driver>>

NextTest ==
    \/ TestPropagateThreaded
    \/ TestPropagate
    \/ TestGetResult
    \/ StepBegin
    \/ SeqCreate
    \/ SeqCreateDone
    \/ SeqSend
    \/ SeqSendDone
    \/ \E w \in DOMAIN workers : A_Take(w)
    \/ \E w \in DOMAIN workers : A_Create(w)
    \/ A_Join
    \/ \E w \in DOMAIN workers : B_Take(w)
    \/ \E w \in DOMAIN workers : B_Check(w)
    \/ \E w \in DOMAIN workers : B_Lock(w)
    \/ \E w \in DOMAIN workers : B_Deposit(w)
    \/ B_Join

SpecTest == InitTest /\ [][NextTest]_vars

\* ------------------------------------------------------------------------
\* C18: the doubling chain
\* ------------------------------------------------------------------------

\* C18: both propagate calls of the test succeed, and get_result(2) after
\* the 12 steps is Some map whose entry for 4 is positive and whose other
\* entries are 0
C18_DoublingChain ==
    /\ pc = "idle" /\ last.op \in {"propagate", "propagate_threaded"} => last.res.ok
    /\ last.op = "get_result" =>
          /\ last.res.res.ok
          /\ last.res.value # None
          /\ 4 \in DOMAIN Unwrap(last.res.value)
          /\ \A v \in DOMAIN Unwrap(last.res.value) :
                IF v = 4 THEN Unwrap(last.res.value)[v].n > 0
                ELSE Unwrap(last.res.value)[v].n = 0

\* get_result(2) has been called after 12 steps
C18_Witness ==
    /\ last.op = "get_result"
    /\ step = TestThreadedSteps + TestSequentialSteps


\* ------------------------------------------------------------------------
\* C19: invalid messages
\* ------------------------------------------------------------------------

\* message msg has an entry that is NaN, negative or greater than 1
Invalid(msg) ==
    \E v \in DOMAIN msg : IsNaN(msg[v]) \/ msg[v].n < 0 \/ msg[v].n > msg[v].d

\* the invalid messages Phase A of the last step produced
InvalidProduced ==
    {k \in 1..Len(hist.produced) : Invalid(hist.produced[k][3])}

\* the inbox entries message m = <<from, to, msg>> would make: the message as
\* it was emitted and as normalize() leaves it
EntriesOf(m) == {<<m[1], m[3]>>, <<m[1], NormalizeIf(normalize, m[3]).msg>>}

\* C19: with check_validity, a step in which a behaviour emitted an invalid
\* message (NaN, negative or above 1) does not succeed in either mode, the
\* message is in no inbox, and the step counter is the one the step began
\* with
C19_InvalidMessageFails ==
    (check_validity /\ InvalidProduced # {}) =>
        /\ \A k \in InvalidProduced : \A i \in Indices(nodes) :
              \A e \in 1..Len(NodeAt(nodes, i).inbox) :
                  NodeAt(nodes, i).inbox[e] \notin EntriesOf(hist.produced[k])
        /\ step = hist.step0
        /\ StepEnded => hist.outcome # "ok"

\* a threaded step with check_validity has ended with InvalidMessage on a
\* message of NaN entries
C19_Witness ==
    /\ check_validity
    /\ Threaded
    /\ hist.outcome = "failed"
    /\ hist.res = Err("InvalidMessage")
    /\ \E k \in InvalidProduced :
          \E v \in DOMAIN hist.produced[k][3] : IsNaN(hist.produced[k][3][v])

\* the same in a sequential step, on a message of negative entries
C19_SequentialReached ==
    /\ check_validity
    /\ ~Threaded
    /\ hist.outcome = "failed"
    /\ hist.res = Err("InvalidMessage")
    /\ \E k \in InvalidProduced :
          \E v \in DOMAIN hist.produced[k][3] : hist.produced[k][3][v].n < 0


\* ------------------------------------------------------------------------
\* C20: initialization happens once
\* ------------------------------------------------------------------------

\* the last call was initialize_node or initialize_node_constant_msg on a
\* node that was initialized already
InitializedAgain ==
    /\ pc = "idle"
    /\ last.op \in {"initialize_node", "initialize_node_constant_msg"}
    /\ InBounds(last.pre, last.i)
    /\ NodeAt(last.pre, last.i).is_initialized

\* C20: initialize_node and initialize_node_constant_msg on an initialized
\* node fail with AlreadyInitialized and the behaviour is not initialized a
\* second time; initialize() leaves the initialized nodes as they are, and
\* when it succeeds every other node has received initialize(connections)
\* and is_initialized() is true
C20_InitializeOnce ==
    /\ InitializedAgain =>
          /\ last.res = Err("AlreadyInitialized")
          /\ NodeAt(nodes, last.i).node_function
                = NodeAt(last.pre, last.i).node_function
          /\ NodeAt(nodes, last.i).is_initialized
    /\ (pc = "idle" /\ last.op = "initialize") =>
          /\ \A i \in Indices(nodes) :
                NodeAt(last.pre, i).is_initialized => NodeAt(nodes, i) = NodeAt(last.pre, i)
          /\ last.res.ok =>
                /\ BPGraph_is_initialized(nodes)
                /\ \A i \in Indices(nodes) :
                      ~NodeAt(last.pre, i).is_initialized =>
                          NodeAt(nodes, i).node_function
                            = NF_initialize(NodeAt(last.pre, i).node_function,
                                            Adj(last.pre, i))

\* initialize_node_constant_msg was refused on a node of a graph that had
\* been initialized
C20_Witness ==
    /\ InitializedAgain
    /\ last.op = "initialize_node_constant_msg"
    /\ last.res = Err("AlreadyInitialized")
    /\ hist.built # <<>>

\* initialize() has succeeded on a graph of which one node was initialized
\* already and another was not
C20_SkipReached ==
    /\ pc = "idle"
    /\ last.op = "initialize"
    /\ last.res.ok
    /\ \E i, j \in Indices(nodes) :
          NodeAt(last.pre, i).is_initialized /\ ~NodeAt(last.pre, j).is_initialized


\* ------------------------------------------------------------------------
\* C21: seed messages of initialize_node
\* ------------------------------------------------------------------------

\* the last call was initialize_node(i, Some([(to, msg)])) and its one seed
\* message is in no inbox: every inbox is as it was before the call
SeedDropped ==
    /\ pc = "idle"
    /\ last.op = "initialize_node"
    /\ last.j = 1
    /\ \A k \in Indices(nodes) : NodeAt(nodes, k).inbox = NodeAt(last.pre, k).inbox

\* C21: initialize_node(i, Some(msgs)) returns an error whenever a seed
\* message was not delivered
C21_SeedErrorsSurface == SeedDropped => ~last.res.ok


\* ------------------------------------------------------------------------
\* Specification of get_result as a function of the prior and the inbox
\* ------------------------------------------------------------------------

\* the priors of the variable: none, a uniform one, one of zeros, one of NaN
ResultPriors ==
    {None, Some(Uniform(Rat(1, 2))), Some(Uniform(Rat(0, 1))), Some(Uniform(NaN))}

\* the messages in its inbox: two of them have the product zero
ResultMsgs ==
    {Uniform(Rat(1, 2)), Uniform(Rat(0, 1)),
     Skew(Rat(1, 2), Rat(0, 1)), Skew(Rat(0, 1), Rat(1, 2))}

\* the inboxes of n messages, from the neighbours 0 .. n-1 in this order
RECURSIVE ResultInboxes(_)
ResultInboxes(n) ==
    IF n = 0 THEN {<<>>}
    ELSE {Append(b, <<n - 1, msg>>) : b \in ResultInboxes(n - 1), msg \in ResultMsgs}

\* a variable node with some prior that holds some inbox
InitResult ==
    /\ \E prior \in ResultPriors, n \in 0..MaxArity :
          \E inbox \in ResultInboxes(n) :
             nodes = <<[Node_new(VariableNode_prior(prior)) EXCEPT !.inbox = inbox]>>
    /\ step = 0
    /\ normalize = TRUE
    /\ check_validity = FALSE
    /\ last = Call("new", 0, 0, <<>>, Ok)
    /\ DriverIdle

\* get_result(0)
GetResult ==
    /\ last.op = "new"
    /\ last' = Call("get_result", 0, 0, nodes, Node_get_result(NodeAt(nodes, 0)))
    /\ UNCHANGED <<nodes, step, normalize, check_validity, driver>>

NextResult == GetResult

SpecResult == InitResult /\ [][NextResult]_vars

\* ------------------------------------------------------------------------
\* C22: get_result and degenerate distributions
\* ------------------------------------------------------------------------

\* the largest absolute value of map m is 0 or NaN
Degenerate(m) ==
    \/ \E v \in DOMAIN m : IsNaN(m[v])
    \/ \A v \in DOMAIN m : m[v].n = 0

\* the node get_result was called on
Asked == NodeAt(last.pre, 0)

\* C22: get_result fails when the prior it scales is degenerate, and what it
\* returns after a scaling (of the prior, or of the product with an inbox
\* message) is not degenerate
C22_DegenerateFails ==
    last.op = "get_result" =>
        /\ (Asked.node_function.prior # None
              /\ Degenerate(Unwrap(Asked.node_function.prior))) => ~last.res.res.ok
        /\ (/\ Asked.node_function.prior # None \/ Len(Asked.inbox) >= 2
            /\ last.res.res.ok
            /\ last.res.value # None) => ~Degenerate(Unwrap(last.res.value))


\* ------------------------------------------------------------------------
\* C23: propagation on a graph that is not initialized
\* ------------------------------------------------------------------------

\* a propagation call made on a graph with a node that is not initialized
\* has ended
UninitializedCallEnded ==
    /\ call.op # "none"
    /\ pc \in {"idle", "crashed"}
    /\ ~BPGraph_is_initialized(call.start)

\* C23: every propagation entry point called on a graph that is not
\* initialized returns NotInitialized, leaves nodes and step counter as
\* they were and does not crash
C23_NotInitializedRefused ==
    UninitializedCallEnded =>
        /\ pc = "idle"
        /\ last.res = Err("NotInitialized")
        /\ nodes = call.start
        /\ step = call.start_step


\* ------------------------------------------------------------------------
\* C24: initialize_node_constant_msg
\* ------------------------------------------------------------------------

\* the last call was initialize_node_constant_msg on a node of the graph
ConstantMsgCalled ==
    /\ pc = "idle"
    /\ last.op = "initialize_node_constant_msg"
    /\ InBounds(last.pre, last.i)

\* C24: initialize_node_constant_msg(i, msg) leaves every other node as it
\* was; when it succeeds node i is initialized and its own inbox has gained
\* one copy of msg per neighbour, marked as coming from that neighbour
C24_ConstantMsgHeldAtNode ==
    ConstantMsgCalled =>
        /\ \A k \in Indices(nodes) : k # last.i => NodeAt(nodes, k) = NodeAt(last.pre, k)
        /\ last.res.ok =>
              /\ NodeAt(nodes, last.i).is_initialized
              /\ NodeAt(nodes, last.i).inbox
                    = NodeAt(last.pre, last.i).inbox
                      \o [k \in 1..Len(Adj(last.pre, last.i)) |->
                             <<Adj(last.pre, last.i)[k], Uniform(Rat(1, 2))>>]

\* initialize_node_constant_msg has succeeded on the factor, which has two
\* neighbours
C24_Witness ==
    /\ ConstantMsgCalled
    /\ last.res.ok
    /\ Len(Adj(nodes, last.i)) = 2


\* ------------------------------------------------------------------------
\* C25: the order of the tests of Phase B
\* ------------------------------------------------------------------------

\* message k of the last step is invalid as it was produced and addressed to
\* a node of the graph that does not list its sender
InvalidAlongMissingEdge(k) ==
    /\ Invalid(hist.produced[k][3])
    /\ InBounds(hist.snap, hist.produced[k][2])
    /\ ~Contains(Adj(hist.snap, hist.produced[k][2]), hist.produced[k][1])

\* message k of the last step is valid as it was produced and after
\* normalization, and goes along an edge of the graph
Deliverable(k) ==
    /\ ~Invalid(hist.produced[k][3])
    /\ NormalizeIf(normalize, hist.produced[k][3]).res.ok
    /\ ~Invalid(NormalizeIf(normalize, hist.produced[k][3]).msg)
    /\ InBounds(hist.snap, hist.produced[k][2])
    /\ Contains(Adj(hist.snap, hist.produced[k][2]), hist.produced[k][1])

\* a call has returned from a step with check_validity in which one message
\* was invalid and along a missing edge, and every other one deliverable
OneInvalidAlongMissingEdge ==
    /\ pc = "idle"
    /\ call.op # "none"
    /\ check_validity
    /\ hist.outcome = "failed"
    /\ \E k \in 1..Len(hist.produced) :
          /\ InvalidAlongMissingEdge(k)
          /\ \A j \in 1..Len(hist.produced) : j # k => Deliverable(j)

\* C25: in both drivers the validity of a message is tested before its edge,
\* so a step that fails on a message both invalid and along a missing edge
\* returns InvalidMessage
C25_InvalidBeforeMissingEdge ==
    OneInvalidAlongMissingEdge => last.res = Err("InvalidMessage")


\* ------------------------------------------------------------------------
\* C26: Phase A of the threaded driver
\* ------------------------------------------------------------------------

\* where node i is during Phase A: <<0, 0, k>> at place k of the queue,
\* <<w, 1, k>> at place k of the chunk of worker w, <<w, 2, k>> at place k of
\* the outboxes worker w has collected
Places(i) ==
    {<<0, 0, k>> : k \in {k \in 1..Len(queue) : queue[k] = i}}
    \cup UNION {{<<w, 1, k>> : k \in {k \in 1..Len(workers[w].chunk) :
                                          workers[w].chunk[k] = i}} :
                   w \in DOMAIN workers}
    \cup UNION {{<<w, 2, k>> : k \in {k \in 1..Len(workers[w].thread_msgs) :
                                          workers[w].thread_msgs[k][1] = i}} :
                   w \in DOMAIN workers}

\* the outboxes the workers hold for node i
Collected(i) ==
    UNION {{workers[w].thread_msgs[k][2] :
                k \in {k \in 1..Len(workers[w].thread_msgs) :
                          workers[w].thread_msgs[k][1] = i}} :
              w \in DOMAIN workers}

\* Phase A is under way and no worker has failed
PhaseARunning ==
    /\ pc = "thrA"
    /\ \A w \in DOMAIN workers : workers[w].res.ok

\* C26: in Phase A of a threaded step every node that was ready when the step
\* began is at exactly one place (the queue, the chunk of one worker, or the
\* collected outboxes of one worker) and no other node is anywhere; a node
\* whose outbox was collected is the result of one create_messages on the
\* node the step began with, every other node is as the step began with it;
\* and the joined result holds exactly one outbox per ready node
C26_PhaseAPartition ==
    /\ PhaseARunning =>
          \A i \in Indices(nodes) :
              /\ Cardinality(Places(i))
                    = IF Node_is_ready(NodeAt(hist.snap, i)) THEN 1 ELSE 0
              /\ IF Collected(i) # {}
                 THEN /\ NodeAt(nodes, i) = Node_create_messages(NodeAt(hist.snap, i)).node
                      /\ Collected(i) = {Node_create_messages(NodeAt(hist.snap, i)).out}
                 ELSE NodeAt(nodes, i) = NodeAt(hist.snap, i)
    /\ pc = "thrB" =>
          /\ Len(outgoing) = Len(ReadyNodes(hist.snap))
          /\ \A i \in Indices(nodes) :
                Cardinality({k \in 1..Len(outgoing) : outgoing[k][1] = i})
                    = IF Node_is_ready(NodeAt(hist.snap, i)) THEN 1 ELSE 0

\* two workers have finished Phase A and each has collected an outbox
C26_Witness ==
    /\ PhaseARunning
    /\ call.T = 2
    /\ \A w \in DOMAIN workers :
          workers[w].pc = "done" /\ workers[w].thread_msgs # <<>>


\* ------------------------------------------------------------------------
\* C27: Phase B of the threaded driver
\* ------------------------------------------------------------------------

\* the workers of send_threaded that are between nodes[to].lock() and the
\* end of the iteration, with destination i
Appending(i) ==
    {w \in DOMAIN workers : workers[w].pc = "deposit" /\ workers[w].cur[2] = i}

\* the inbox of node i when Phase A of the last step had ended
InboxAfterPhaseA(i) ==
    IF Node_is_ready(NodeAt(hist.snap, i))
    THEN Node_create_messages(NodeAt(hist.snap, i)).node.inbox
    ELSE NodeAt(hist.snap, i).inbox

\* the inbox entries Phase B owes node i: the messages Phase A produced for
\* it, as normalize() leaves them
OwedTo(i) ==
    [k \in 1..Len(SelectSeq(hist.produced, LAMBDA m : m[2] = i)) |->
        <<SelectSeq(hist.produced, LAMBDA m : m[2] = i)[k][1],
          NormalizeIf(normalize,
                      SelectSeq(hist.produced, LAMBDA m : m[2] = i)[k][3]).msg>>]

\* a threaded step has succeeded
ThreadedStepSucceeded ==
    /\ Threaded
    /\ call.tried > 0
    /\ hist.outcome = "ok"

\* C27: in Phase B of a threaded step at most one worker at a time is
\* testing the edge and appending at a given destination, and it holds the
\* lock of that node; when the step has succeeded every inbox holds what it
\* held after Phase A and each message produced for it, each exactly once
C27_PhaseBExclusiveOnce ==
    /\ pc = "thrB" =>
          \A i \in Indices(nodes) :
              /\ Cardinality(Appending(i)) <= 1
              /\ \A w \in Appending(i) : locks[i + 1] = w
    /\ ThreadedStepSucceeded =>
          /\ hist.deposited = Len(hist.produced)
          /\ \A i \in Indices(nodes) :
                /\ Len(NodeAt(nodes, i).inbox)
                      = Len(InboxAfterPhaseA(i)) + Len(OwedTo(i))
                /\ \A k \in 1..Len(NodeAt(nodes, i).inbox) :
                      Count(NodeAt(nodes, i).inbox, NodeAt(nodes, i).inbox[k])
                          = Count(InboxAfterPhaseA(i), NodeAt(nodes, i).inbox[k])
                            + Count(OwedTo(i), NodeAt(nodes, i).inbox[k])

\* one worker is appending at a node while the other waits for the lock of
\* the same node
C27_Witness ==
    /\ pc = "thrB"
    /\ \E v, w \in DOMAIN workers :
          /\ workers[v].pc = "deposit"
          /\ workers[w].pc = "lock"
          /\ workers[v].cur[2] = workers[w].cur[2]

\* a step of two workers has succeeded after both had appended
C27_AllAppended ==
    /\ ThreadedStepSucceeded
    /\ call.T = 2
    /\ Len(hist.produced) > MinBatchSize


\* ------------------------------------------------------------------------
\* C28: a threaded step terminates
\*
\* The threads of a scope are scheduled by the operating system: a thread
\* that can take a step takes one eventually, and so does the thread that
\* called the step.  node_function returns (A_Create is one step).
\* ------------------------------------------------------------------------

\* the first call on a graph is one of the threaded entry points
FirstCallThreaded ==
    /\ call.n = 0
    /\ \/ CallPropagateStepThreaded
       \/ CallPropagateThreaded

\* one call of a threaded entry point, a step of a thread at a time
NextThreaded ==
    \/ FirstCallThreaded
    \/ StepBegin
    \/ \E w \in DOMAIN workers : A_Take(w)
    \/ \E w \in DOMAIN workers : A_Create(w)
    \/ A_Join
    \/ \E w \in DOMAIN workers : B_Take(w)
    \/ \E w \in DOMAIN workers : B_Check(w)
    \/ \E w \in DOMAIN workers : B_Lock(w)
    \/ \E w \in DOMAIN workers : B_Deposit(w)
    \/ B_Join

\* the next step of worker thread w
WorkerStep(w) ==
    /\ w \in DOMAIN workers
    /\ \/ A_Take(w)
       \/ A_Create(w)
       \/ B_Take(w)
       \/ B_Check(w)
       \/ B_Lock(w)
       \/ B_Deposit(w)

\* the next step of the thread that called the step
CallerStep == StepBegin \/ A_Join \/ B_Join

SpecThreadedFair ==
    /\ InitProp
    /\ [][NextThreaded]_vars
    /\ WF_vars(CallerStep)
    /\ \A w \in 1..MaxThreads : WF_vars(WorkerStep(w))

\* a scope of worker threads is open
InScope == pc \in {"thrA", "thrB"}

\* the node locks worker w holds
LocksHeld(w) == {i \in DOMAIN locks : locks[i] = w}

\* a worker holds at most one node lock, and none while it is at the queue
OneLockAtATime ==
    InScope =>
        \A w \in DOMAIN workers :
            /\ Cardinality(LocksHeld(w)) <= 1
            /\ workers[w].pc \in {"take", "done"} => LocksHeld(w) = {}

\* a take removes at least one item and at most
\* min(remaining, max(5, remaining / (2 * T)))
TakeShrinks ==
    (InScope /\ pc' = pc /\ queue' # queue) =>
        /\ Len(queue') < Len(queue)
        /\ queue' = SubSeq(queue, Len(queue) - Len(queue') + 1, Len(queue))
        /\ \/ Len(queue) - Len(queue') <= MinBatchSize
           \/ Len(queue) - Len(queue') <= Len(queue) \div (2 * call.T)

\* C28: in a threaded step a worker holds at most one lock at a time, every
\* take shortens the queue by at least one item and at most
\* min(remaining, max(5, remaining / (2 * T))), and the scope the step has
\* opened is closed eventually, for every schedule of the threads
C28_ThreadedStepTerminates ==
    /\ []OneLockAtATime
    /\ [][TakeShrinks]_vars
    /\ InScope ~> ~InScope

\* a worker waits for a node lock that another worker holds
C28_Witness ==
    /\ pc = "thrB"
    /\ \E v, w \in DOMAIN workers :
          /\ v # w
          /\ workers[w].pc = "lock"
          /\ locks[workers[w].cur[2] + 1] = v


\* ------------------------------------------------------------------------
\* C29: a worker fails in a threaded step
\* ------------------------------------------------------------------------

\* the star with the prior of its first leaf above 1: the message of that
\* leaf is the first of the first chunk of Phase B
FlawedStar ==
    BuildGraph(<<UserNode_with(TRUE, None, "Full",
                     [res |-> Ok, out |-> <<(<<1, Uniform(Rat(1, 2))>>),
                                            (<<2, Uniform(Rat(1, 2))>>)>>])>>
               \o [k \in 1..StarLeaves |->
                      VariableNode_prior(IF k = 1 THEN Some(Over)
                                         ELSE Some(Uniform(Rat(1, 2))))],
               [k \in 1..StarLeaves |-> <<0, k>>])

\* the stars, built and initialized, before the first step
InitAbandon ==
    /\ nodes \in {Star, FlawedStar}
    /\ step = 0
    /\ normalize \in BOOLEAN
    /\ check_validity \in BOOLEAN
    /\ last = Call("new", 0, 0, <<>>, Ok)
    /\ DriverIdle

SpecAbandon == InitAbandon /\ [][NextThreaded]_vars

\* a worker of the open scope has returned an error
WorkerFailed ==
    /\ InScope
    /\ \E w \in DOMAIN workers : workers[w].pc = "done" /\ ~workers[w].res.ok

\* while the scope stays open nothing is taken from the queue and nothing
\* is appended to an inbox
NothingFurther ==
    /\ queue' = queue
    /\ hist'.deposited = hist.deposited

\* C29: a threaded step in which a worker fails returns an error and leaves
\* the step counter as it was, and once a worker has returned its error no
\* worker takes another item or appends another message
C29_FailureAbandonsWork ==
    /\ [](hist.outcome = "failed" => (~hist.res.ok /\ step = hist.step0))
    /\ [][(WorkerFailed /\ pc' = pc) => NothingFurther]_vars


\* ------------------------------------------------------------------------
\* C30: a message addressed past the end of the node vector
\* ------------------------------------------------------------------------

\* the messages of the last step addressed to an index >= nodes_count
PastTheEnd ==
    {k \in 1..Len(hist.produced) : ~InBounds(hist.snap, hist.produced[k][2])}

\* a step has ended in which a message was addressed past the end and every
\* other message was deliverable; the addressed-past message is itself valid
\* and can be normalized
AddressedPastTheEnd ==
    /\ StepEnded
    /\ PastTheEnd # {}
    /\ \A k \in 1..Len(hist.produced) :
          IF k \in PastTheEnd
          THEN /\ ~Invalid(hist.produced[k][3])
               /\ NormalizeIf(normalize, hist.produced[k][3]).res.ok
          ELSE Deliverable(k)

\* C30: in both drivers a step in which a behaviour addresses a message to
\* an index >= nodes_count ends with the error value IndexOutOfBounds, not
\* with a panic, and every inbox holds at most what it held when Phase A had
\* ended plus the messages produced for it
C30_OutOfBoundsIsError ==
    AddressedPastTheEnd =>
        /\ pc # "crashed"
        /\ hist.outcome = "failed"
        /\ hist.res = Err("IndexOutOfBounds")
        /\ \A i \in Indices(nodes) :
              Len(NodeAt(nodes, i).inbox)
                  <= Len(InboxAfterPhaseA(i)) + Len(OwedTo(i))


\* ------------------------------------------------------------------------
\* C31: VariableNode::node_function on a partial inbox
\* ------------------------------------------------------------------------

\* the last call was node_function on an inbox of 2 <= n < A messages
PartialInbox ==
    /\ last.op = "node_function"
    /\ last.res.ok
    /\ Len(last.i) >= 2
    /\ Len(last.i) < Len(Unwrap(last.pre[1].connections))

\* the neighbours the messages of out are addressed to
Addressees(out) == {out[k][1] : k \in 1..Len(out)}

\* whom node_function addresses on a partial inbox: the senders, once each,
\* and with send_to_all every neighbour, once each
PartialAddressing ==
    PartialInbox =>
        /\ Len(last.j) = Cardinality(Addressees(last.j))
        /\ Addressees(last.j)
              = IF last.pre[1].send_to_all
                THEN {Unwrap(last.pre[1].connections)[k] :
                         k \in 1..Len(Unwrap(last.pre[1].connections))}
                ELSE Senders(last.i)

\* C31: on a partial inbox of distinct senders node_function emits one
\* message per sender and nothing else when send_to_all is false; with
\* send_to_all every neighbour is addressed exactly once, and the message to
\* a neighbour that did not send equals, up to normalization, the product of
\* the prior (if any) and all the received messages
C31_PartialInboxOutputs ==
    /\ PartialAddressing
    /\ (PartialInbox /\ last.pre[1].send_to_all) =>
          \A k \in 1..Len(last.j) :
              last.j[k][1] \notin Senders(last.i) =>
                  Proportional(last.j[k][2],
                               Naive(last.pre[1], last.i, last.j[k][1]))


\* ------------------------------------------------------------------------
\* C33: what an inbox holds after a step
\* ------------------------------------------------------------------------

\* a step has succeeded and nothing has moved since
StepSucceeded ==
    /\ hist.outcome = "ok"
    /\ call.tried > 0

\* node i is one the step is said to drain: a factor, or a variable that was
\* ready when the step began
SaidDrained(i) ==
    \/ Node_is_factor(NodeAt(hist.snap, i))
    \/ Node_is_ready(NodeAt(hist.snap, i))

\* the entries of a sequence
Entries(q) == {q[k] : k \in 1..Len(q)}

\* C33: after a successful step the inbox of every factor and of every
\* variable that was ready holds the messages deposited in that step and no
\* other; create_messages handed the behaviour the inbox as it was; and a
\* node that was not drained keeps its earlier entries in front of the new
\* ones
C33_DrainedEachStep ==
    StepSucceeded =>
        \A i \in Indices(nodes) :
            /\ SaidDrained(i) =>
                  /\ Len(NodeAt(nodes, i).inbox) = Len(OwedTo(i))
                  /\ Entries(NodeAt(nodes, i).inbox) = Entries(OwedTo(i))
            /\ Node_is_ready(NodeAt(hist.snap, i)) =>
                  <<i, NodeAt(hist.snap, i).inbox>> \in hist.consumed
            /\ ~SaidDrained(i) =>
                  /\ Len(NodeAt(nodes, i).inbox)
                        = Len(NodeAt(hist.snap, i).inbox) + Len(OwedTo(i))
                  /\ SubSeq(NodeAt(nodes, i).inbox, 1, Len(NodeAt(hist.snap, i).inbox))
                        = NodeAt(hist.snap, i).inbox


\* ------------------------------------------------------------------------
\* C34: the neighbour list a behaviour was initialized with
\* ------------------------------------------------------------------------

\* the connection list the behaviour of node n holds
HandedConnections(n) == n.node_function.connections

\* C34: the adjacency list of an initialized node is the connection list
\* its behaviour was handed at initialize, and add_node and add_edge leave
\* a graph that has an initialized node as it was
C34_NeighboursFinal ==
    /\ \A i \in Indices(nodes) :
          NodeAt(nodes, i).is_initialized =>
              HandedConnections(NodeAt(nodes, i)) = Some(Adj(nodes, i))
    /\ (last.op \in {"add_node", "add_edge"}
        /\ \E i \in Indices(last.pre) : NodeAt(last.pre, i).is_initialized) =>
          nodes = last.pre


\* ------------------------------------------------------------------------
\* Specification of a variable among factors, over several steps
\*
\* Variable 0 is joined to D factors.  The first E of them are always ready
\* and send the variable a message in every step; the others are ready on a
\* full inbox and emit nothing.  The variable has any input need, with or
\* without a prior, with send_to_all set or not.
\* ------------------------------------------------------------------------

\* the number of steps of the one propagate call
MaxAccSteps == 4

\* what a sending factor returns: one message for the variable, or two
Sends(twice) ==
    [res |-> Ok,
     out |-> IF twice
             THEN <<(<<0, Uniform(Rat(1, 2))>>), (<<0, Uniform(Rat(1, 2))>>)>>
             ELSE <<(<<0, Uniform(Rat(1, 2))>>)>>]

\* the variable and its D factors, E of them sending
Fan(D, E, need, send_to_all, prior, twice) ==
    BuildGraph(<<VariableNode_set_send_to_all(
                     VariableNode_set_input_need(VariableNode_prior(prior), need),
                     send_to_all)>>
               \o [k \in 1..D |->
                      IF k <= E
                      THEN UserNode_with(TRUE, None, "Always", Sends(twice))
                      ELSE UserNode_with(TRUE, None, "Full", [res |-> Ok, out |-> <<>>])],
               [k \in 1..D |-> <<0, k>>])

\* the graphs the steps are run on
Fans ==
    {Fan(D, E, need, send_to_all, prior, twice) :
        D \in {2, 3}, E \in {1, 2}, need \in InputNeeds,
        send_to_all \in BOOLEAN,
        prior \in {None, Some(Uniform(Rat(1, 2)))},
        twice \in BOOLEAN}

InitAccumulate ==
    /\ nodes \in Fans
    /\ step = 0
    /\ normalize \in BOOLEAN
    /\ check_validity = FALSE
    /\ last = Call("new", 0, 0, <<>>, Ok)
    /\ DriverIdle

\* propagate(steps), once
AccPropagate ==
    /\ pc = "idle"
    /\ call.n = 0
    /\ \E steps \in 1..MaxAccSteps : EnterLoop("propagate", steps, 0)
    /\ UNCHANGED <<nodes, step, normalize, check_validity, cursor,
                   outgoing, queue, workers, locks, hist>>

NextAccumulate ==
    \/ AccPropagate
    \/ StepBegin
    \/ SeqCreate
    \/ SeqCreateDone
    \/ SeqSend
    \/ SeqSendDone

SpecAccumulate == InitAccumulate /\ [][NextAccumulate]_vars

\* every factor of g emits at most one message per neighbour per call
OncePerNeighbour(g) ==
    \A i \in Indices(g) :
        NodeAt(g, i).node_function.type = "UserNode" =>
            Len(NodeAt(g, i).node_function.emits.out)
                = Cardinality(Addressees(NodeAt(g, i).node_function.emits.out))

\* ------------------------------------------------------------------------
\* C32: one message per sender and step
\* ------------------------------------------------------------------------

\* the messages of the last step from node f to node i
ProducedFromTo(f, i) ==
    {k \in 1..Len(hist.produced) :
        hist.produced[k][1] = f /\ hist.produced[k][2] = i}

\* C32: where the factors emit at most one message per neighbour per call,
\* no node is sent two messages by the same neighbour in one step
C32_OnePerSenderPerStep ==
    (OncePerNeighbour(nodes) /\ pc = "seqB") =>
        \A f \in Indices(nodes), i \in Indices(nodes) :
            Cardinality(ProducedFromTo(f, i)) <= 1

\* ------------------------------------------------------------------------
\* C35: the size of an inbox
\* ------------------------------------------------------------------------

\* C35: where the factors emit at most one message per neighbour per call,
\* no inbox holds more entries than its node has neighbours
C35_InboxWithinDegree ==
    OncePerNeighbour(nodes) =>
        \A i \in Indices(nodes) : Len(NodeAt(nodes, i).inbox) <= Len(Adj(nodes, i))

\* ------------------------------------------------------------------------
\* C36: the assertion of the send_to_all branch
\* ------------------------------------------------------------------------

\* no step has panicked where the factors emit at most one message per
\* neighbour per call
NoPanicOncePerNeighbour == OncePerNeighbour(nodes) => pc # "crashed"

\* C36: no propagation step panics at the assertion of the send_to_all
\* branch of VariableNode::node_function
C36_AssertionHolds == pc # "crashed"

====
